---- MODULE Spec2Model ----
(***************************************************************************)
(* A model of the typed XML <-> property-tree mapping of the Anno .cfg     *)
(* import/export addon (io_annocfg): the value converters, the dynamic     *)
(* property tree XMLPropertyGroup (DPT), the coordinate Transform and the  *)
(* boolean leaves written by the serialisers, the scene objects an import  *)
(* creates and an export writes back (SpecScene), the material cache       *)
(* (SpecMaterial) and the model references of animation tracks (SpecTrack).*)
(* The scene is the sequence of bpy.data.objects; a parent is an index     *)
(* into it, 0 for None, and an object pointer is the object's name.        *)
(* Smaller machines follow: the walk of get_main_file_obj (SpecWalk), the  *)
(* UniqueNamer (SpecNamer), the removal of MaterialLODInfos on export      *)
(* (SpecLod), DuplicateAnnoObject (SpecDuplicate), the construction of     *)
(* Transforms (SpecConstruct), reset of a property tree (SpecReset) and    *)
(* the operators of the feedback sequence list (SpecList).                 *)
(*                                                                         *)
(* Texts are sequences of tokens.  A token is one character, except the    *)
(* seven characters "_COLOR[" which are one token, and the Python values   *)
(* None / "True" / "False" where a serialiser writes str(value).           *)
(* Floats are fixed-point integers counting units of 10^-7, one digit more *)
(* than format_float prints.                                               *)
(***************************************************************************)
EXTENDS Integers, Sequences, FiniteSets, TLC

\* ------------------------------------------------------------------ bounds
\* Most children of one generated XML element.
MaxChildren == 3
\* Most edit operations (set / remove / mark deleted) in one run.
MaxEdits == 2

\* ------------------------------------------------------------------- texts
NoneText == <<"<None>">>
DigitChars == <<"0", "1", "2", "3", "4", "5", "6", "7", "8", "9">>
IsDigit(c) == \E i \in 1..10 : DigitChars[i] = c
DigitVal(c) == (CHOOSE i \in 1..10 : DigitChars[i] = c) - 1

RECURSIVE Pow10(_)
Pow10(n) == IF n = 0 THEN 1 ELSE 10 * Pow10(n - 1)

\* str.isnumeric(): non-empty and every character numeric.
isnumeric(t) == Len(t) > 0 /\ \A i \in 1..Len(t) : IsDigit(t[i])

\* str.lstrip(c): drop every leading c.
RECURSIVE lstrip(_, _)
lstrip(t, c) == IF Len(t) > 0 /\ t[1] = c THEN lstrip(Tail(t), c) ELSE t

RECURSIVE rstrip(_, _)
rstrip(t, c) ==
    IF Len(t) > 0 /\ t[Len(t)] = c THEN rstrip(SubSeq(t, 1, Len(t) - 1), c) ELSE t

strip(t) == rstrip(lstrip(t, " "), " ")

\* str.replace(c, ""): drop every token c.
RECURSIVE remove_token(_, _)
remove_token(t, c) ==
    IF t = <<>> THEN <<>>
    ELSE IF t[1] = c THEN remove_token(Tail(t), c)
    ELSE <<t[1]>> \o remove_token(Tail(t), c)

RECURSIVE count_token(_, _)
count_token(t, c) ==
    IF t = <<>> THEN 0
    ELSE (IF t[1] = c THEN 1 ELSE 0) + count_token(Tail(t), c)

RECURSIVE DigitsValue(_)
DigitsValue(t) ==
    IF t = <<>> THEN 0
    ELSE 10 * DigitsValue(SubSeq(t, 1, Len(t) - 1)) + DigitVal(t[Len(t)])

RECURSIVE NatToText(_)
NatToText(n) ==
    IF n < 10 THEN <<DigitChars[n + 1]>>
    ELSE NatToText(n \div 10) \o <<DigitChars[(n % 10) + 1]>>

\* str(int)
IntToText(n) == IF n < 0 THEN <<"-">> \o NatToText(-n) ELSE NatToText(n)

\* n written with exactly w digits (n < 10^w)
RECURSIVE PadNat(_, _)
PadNat(n, w) ==
    IF w = 0 THEN <<>> ELSE PadNat(n \div 10, w - 1) \o <<DigitChars[(n % 10) + 1]>>

\* int(s): surrounding blanks, one optional sign, then one or more digits.
Unsigned(t) == IF Len(t) > 0 /\ t[1] = "-" THEN Tail(t) ELSE t
int_ok(s) == isnumeric(Unsigned(strip(s)))
int_value(s) ==
    LET t == strip(s)
    IN  IF Len(t) > 0 /\ t[1] = "-" THEN 0 - DigitsValue(Tail(t)) ELSE DigitsValue(t)

\* Decimal digits a float value keeps (format_float prints six of them).
FloatFrac == 7

\* float(s): surrounding blanks, one optional sign, digits with at most one
\* point and at least one digit.  The value counts units of 10^-FloatFrac.
PointAt(t) == IF \E i \in 1..Len(t) : t[i] = "." THEN CHOOSE i \in 1..Len(t) : t[i] = "." ELSE 0
float_ok(s) ==
    LET t == Unsigned(strip(s))
        d == remove_token(t, ".")
    IN  /\ count_token(t, ".") <= 1
        /\ isnumeric(d)
float_magnitude(u) ==
    LET p == PointAt(u)
        ip == IF p = 0 THEN u ELSE SubSeq(u, 1, p - 1)
        fp == IF p = 0 THEN <<>> ELSE SubSeq(u, p + 1, Len(u))
        fp7 == SubSeq(fp, 1, IF Len(fp) < FloatFrac THEN Len(fp) ELSE FloatFrac)
    IN  DigitsValue(ip) * Pow10(FloatFrac) + DigitsValue(fp7) * Pow10(FloatFrac - Len(fp7))
float_signed(t) ==
    IF Len(t) > 0 /\ t[1] = "-" THEN 0 - float_magnitude(Tail(t)) ELSE float_magnitude(t)
float_value(s) == float_signed(strip(s))

\* utils.format_float: "{:.6f}".format(value), rounding what follows the
\* sixth digit half to even.
format_float(v) ==
    LET mag == IF v < 0 THEN 0 - v ELSE v
        unit == Pow10(FloatFrac - 6)
        base == mag \div unit
        r == mag % unit
        q == IF 2 * r > unit \/ (2 * r = unit /\ base % 2 = 1) THEN base + 1 ELSE base
    IN  (IF v < 0 THEN <<"-">> ELSE <<>>)
          \o NatToText(q \div Pow10(6)) \o <<".">> \o PadNat(q % Pow10(6), 6)

\* utils.is_type(T, s)
is_type(T, s) ==
    CASE T = "int" -> int_ok(s)
      [] T = "float" -> float_ok(s)
      [] OTHER -> TRUE

\* ------------------------------------------------------------- XML elements
\* An ET.Element: tag, text (NoneText for None) and the ordered children.
Leaf(tag, text) == [tag |-> tag, text |-> text, children |-> <<>>]
Elem(tag, children) == [tag |-> tag, text |-> NoneText, children |-> children]

\* Element.find(tag): the position of the first child with that tag, or 0.
find(node, tag) ==
    IF \E i \in 1..Len(node.children) : node.children[i].tag = tag
    THEN CHOOSE i \in 1..Len(node.children) :
            /\ node.children[i].tag = tag
            /\ \A j \in 1..(i - 1) : node.children[j].tag # tag
    ELSE 0

\* utils.find_or_create(parent, tag).text = text, for a query of one part.
find_or_create_text(parent, tag, text) ==
    LET i == find(parent, tag)
    IN  IF i = 0
        THEN [parent EXCEPT !.children = Append(@, Leaf(tag, text))]
        ELSE [parent EXCEPT !.children[i].text = text]

\* --------------------------------------------------------------- converters
\* feedback_enums.NAME_BY_SEQUENCE_ID / SEQUENCE_ID_BY_NAME (the module is not
\* part of the sources at hand): one known sequence, and the .get defaults.
KnownSequenceId == 1000
NAME_BY_SEQUENCE_ID(id) == IF id = KnownSequenceId THEN <<"idle01">> ELSE <<"none">>
SEQUENCE_ID_BY_NAME(name) == IF name = <<"idle01">> THEN KnownSequenceId ELSE 0 - 1

converter_by_tag(tag) ==
    CASE tag \in {"ConfigType", "FileName", "Name"} -> "StringConverter"
      [] tag \in {"AdaptTerrainHeight", "HeightAdaptationMode", "DIFFUSE_ENABLED",
                  "NORMAL_ENABLED", "METALLIC_TEX_ENABLED", "SEPARATE_AO_TEXTURE",
                  "HEIGHT_MAP_ENABLED", "NIGHT_GLOW_ENABLED", "DYE_MASK_ENABLED",
                  "cUseTerrainTinting", "SELF_SHADOWING_ENABLED", "WATER_CUTOUT_ENABLED",
                  "ADJUST_TO_TERRAIN_HEIGHT", "GLOW_ENABLED"} -> "BoolConverter"
      [] tag \in {"SequenceID", "m_IdleSequenceID"} -> "FeedbackSequenceConverter"
      [] tag \in {"BlenderModelID", "BlenderParticleID"} -> "ObjectPointerConverter"
      [] OTHER -> "none"

get_converter_for_sniff_int(value_string) ==
    isnumeric(value_string) \/ isnumeric(lstrip(value_string, "-"))

get_converter_for(tag, value_string) ==
    IF converter_by_tag(tag) # "none" THEN converter_by_tag(tag)
    ELSE IF Len(value_string) > 0 /\ value_string[1] = "_COLOR[" THEN "ColorConverter"
    ELSE IF get_converter_for_sniff_int(value_string) THEN "IntConverter"
    ELSE IF is_type("float", value_string) THEN "FloatConverter"
    ELSE "StringConverter"

Raised(e) == [exc |-> e, value |-> <<>>]
Value(v) == [exc |-> "none", value |-> v]

\* Converter.from_string: the try block only prints; the return statement
\* converts again, so a failing conversion raises.
Converter_from_string(data_type, s) ==
    CASE data_type = "str" -> Value(s)
      [] data_type = "int" -> IF int_ok(s) THEN Value(int_value(s)) ELSE Raised("ValueError")
      [] data_type = "float" ->
            IF float_ok(s) THEN Value(float_value(s)) ELSE Raised("ValueError")

BoolConverter_from_string(s) ==
    IF int_ok(s) THEN Value(int_value(s) # 0) ELSE Raised("ValueError")

FeedbackSequenceConverter_from_string(s) ==
    IF int_ok(s) THEN Value(NAME_BY_SEQUENCE_ID(int_value(s))) ELSE Raised("ValueError")

\* A converter that stores None for every name
ObjectPointerConverter_from_string_none(s, objs) ==
    IF s \in objs THEN Value(NoneText) ELSE Raised("KeyError")

\* bpy.data.objects[s]: a pointer is the object's name.
ObjectPointerConverter_from_string(s, objs) ==
    IF s \in objs THEN Value(s) ELSE Raised("KeyError")

\* ColorConverter.from_string: the pieces between the commas are strings, and
\* format_float of a string raises.
ColorConverter_from_string(s) ==
    LET body == remove_token(remove_token(remove_token(s, " "), "_COLOR["), "]")
        values == count_token(body, ",") + 1
    IN  IF values # 3 THEN Raised("AssertionError") ELSE Raised("ValueError")

from_string(converter, s, objs) ==
    CASE converter = "StringConverter" -> Converter_from_string("str", s)
      [] converter = "IntConverter" -> Converter_from_string("int", s)
      [] converter = "FloatConverter" -> Converter_from_string("float", s)
      [] converter = "BoolConverter" -> BoolConverter_from_string(s)
      [] converter = "FeedbackSequenceConverter" -> FeedbackSequenceConverter_from_string(s)
      [] converter = "ObjectPointerConverter" -> ObjectPointerConverter_from_string(s, objs)
      [] converter = "ColorConverter" -> ColorConverter_from_string(s)

BoolConverter_to_string(value) == IntToText(IF value THEN 1 ELSE 0)

\* ObjectPointerConverter.to_string: "" for None, else value.name
ObjectPointerConverter_to_string(value) == IF value = NoneText THEN <<>> ELSE value

\* ColorConverter.to_string of three component texts
ColorConverter_to_string(value) ==
    <<"_COLOR[">> \o value[1] \o <<",", " ">> \o value[2] \o <<",", " ">> \o value[3] \o <<"]">>

to_string(converter, value) ==
    CASE converter = "StringConverter" -> value
      [] converter = "IntConverter" -> IntToText(value)
      [] converter = "FloatConverter" -> format_float(value)
      [] converter = "BoolConverter" -> BoolConverter_to_string(value)
      [] converter = "FeedbackSequenceConverter" -> IntToText(SEQUENCE_ID_BY_NAME(value))
      [] converter = "ObjectPointerConverter" -> ObjectPointerConverter_to_string(value)
      [] converter = "ColorConverter" -> ColorConverter_to_string(value)

\* ------------------------------------------------- the dynamic property tree
\* XMLPropertyGroup: a property entry is [tag, value].
EmptyDPT ==
    [tag |-> "", config_type |-> <<>>,
     feedback_sequence_properties |-> <<>>, boolean_properties |-> <<>>,
     filename_properties |-> <<>>, string_properties |-> <<>>,
     int_properties |-> <<>>, float_properties |-> <<>>,
     color_properties |-> <<>>, object_pointer_properties |-> <<>>,
     dynamic_properties |-> <<>>, hidden |-> FALSE, deleted |-> FALSE]

properties_by_converter(converter) ==
    CASE converter = "BoolConverter" -> "boolean_properties"
      [] converter = "StringConverter" -> "string_properties"
      [] converter = "IntConverter" -> "int_properties"
      [] converter = "FloatConverter" -> "float_properties"
      [] converter = "ColorConverter" -> "color_properties"
      [] converter = "ObjectPointerConverter" -> "object_pointer_properties"
      [] converter = "FeedbackSequenceConverter" -> "feedback_sequence_properties"

FirstWithTag(props, tag) ==
    IF \E i \in 1..Len(props) : props[i].tag = tag
    THEN CHOOSE i \in 1..Len(props) :
            /\ props[i].tag = tag
            /\ \A j \in 1..(i - 1) : props[j].tag # tag
    ELSE 0

\* XMLPropertyGroup.set once the converter is chosen and has converted the
\* text to conv: [dpt, exc, converter]
set_converted(self, tag, converter, conv, replace) ==
    LET properties == IF tag = "FileName" THEN "filename_properties"
                      ELSE properties_by_converter(converter)
        i == FirstWithTag(self[properties], tag)
    IN  IF conv.exc # "none"
        THEN [dpt |-> self, exc |-> conv.exc, converter |-> converter]
        ELSE IF tag = "ConfigType"
        THEN [dpt |-> [self EXCEPT !.config_type = conv.value],
              exc |-> "none", converter |-> converter]
        ELSE IF replace /\ i # 0
        THEN [dpt |-> [self EXCEPT ![properties][i].value = conv.value],
              exc |-> "none", converter |-> converter]
        ELSE [dpt |-> [self EXCEPT ![properties] =
                            Append(@, [tag |-> tag, value |-> conv.value])],
              exc |-> "none", converter |-> converter]
set_with(self, tag, converter, value_string, replace, objs) ==
    set_converted(self, tag, converter, from_string(converter, value_string, objs), replace)

\* XMLPropertyGroup.set: [dpt, exc, converter]
set(self, tag, value_string, replace, objs) ==
    set_with(self, tag, get_converter_for(tag, value_string), value_string, replace, objs)

\* XMLPropertyGroup.from_node: [dpt, exc]; an exception leaves what the loop
\* had stored so far.
RECURSIVE from_node(_, _, _)
RECURSIVE from_node_children(_, _, _)
RECURSIVE from_node_after(_, _, _)
\* The loop of from_node after one child gave r
from_node_after(r, children, objs) ==
    IF r.exc # "none" THEN [dpt |-> r.dpt, exc |-> r.exc]
    ELSE from_node_children(r.dpt, children, objs)
\* The nested tree of a child appended to dynamic_properties
from_node_nested(self, r) ==
    [dpt |-> [self EXCEPT !.dynamic_properties = Append(@, r.dpt)], exc |-> r.exc]
from_node_children(self, children, objs) ==
    IF children = <<>> THEN [dpt |-> self, exc |-> "none"]
    ELSE IF Len(children[1].children) = 0
    THEN from_node_after(
            set(self, children[1].tag,
                IF children[1].text = NoneText THEN <<>> ELSE children[1].text, FALSE, objs),
            Tail(children), objs)
    ELSE from_node_after(
            from_node_nested(self, from_node(EmptyDPT, children[1], objs)),
            Tail(children), objs)
from_node(self, node, objs) ==
    from_node_children([self EXCEPT !.tag = node.tag], node.children, objs)

\* The leaves to_node writes for one category.
RECURSIVE PropertyLeaves(_, _)
PropertyLeaves(property_group, converter) ==
    IF property_group = <<>> THEN <<>>
    ELSE <<Leaf(property_group[1].tag, to_string(converter, property_group[1].value))>>
           \o PropertyLeaves(Tail(property_group), converter)

\* to_node writing the categories in the order draw() lists them
to_node_categories_as_drawn ==
    << <<"feedback_sequence_properties", "FeedbackSequenceConverter">>,
       <<"filename_properties", "StringConverter">>,
       <<"boolean_properties", "BoolConverter">>,
       <<"int_properties", "IntConverter">>,
       <<"float_properties", "FloatConverter">>,
       <<"string_properties", "StringConverter">>,
       <<"object_pointer_properties", "ObjectPointerConverter">> >>

\* to_node leaving the object pointers out
to_node_categories_without_pointers ==
    << <<"feedback_sequence_properties", "FeedbackSequenceConverter">>,
       <<"string_properties", "StringConverter">>,
       <<"int_properties", "IntConverter">>,
       <<"filename_properties", "StringConverter">>,
       <<"float_properties", "FloatConverter">>,
       <<"boolean_properties", "BoolConverter">> >>

\* The categories to_node writes, in its order.
to_node_categories ==
    << <<"feedback_sequence_properties", "FeedbackSequenceConverter">>,
       <<"string_properties", "StringConverter">>,
       <<"int_properties", "IntConverter">>,
       <<"filename_properties", "StringConverter">>,
       <<"float_properties", "FloatConverter">>,
       <<"object_pointer_properties", "ObjectPointerConverter">>,
       <<"boolean_properties", "BoolConverter">> >>

RECURSIVE CategoryLeaves(_, _)
CategoryLeaves(self, categories) ==
    IF categories = <<>> THEN <<>>
    ELSE PropertyLeaves(self[categories[1][1]], categories[1][2])
           \o CategoryLeaves(self, Tail(categories))

\* to_node that leaves out a hidden tree instead of a deleted one
to_node_skips_hidden(dyn_prop) == dyn_prop.hidden

\* Whether to_node leaves a nested tree out.
to_node_skips(dyn_prop) == dyn_prop.deleted

\* XMLPropertyGroup.to_node(target_node)
RECURSIVE to_node(_, _)
RECURSIVE to_node_dynamic(_)
to_node_dynamic(dynamic_properties) ==
    IF dynamic_properties = <<>> THEN <<>>
    ELSE LET dyn_prop == dynamic_properties[1]
         IN  (IF to_node_skips(dyn_prop) THEN <<>>
              ELSE <<to_node(dyn_prop, Elem(dyn_prop.tag, <<>>))>>)
               \o to_node_dynamic(Tail(dynamic_properties))
to_node(self, target_node) ==
    LET tagged == [target_node EXCEPT !.tag = self.tag]
        typed == IF self.config_type # <<>>
                 THEN find_or_create_text(tagged, "ConfigType", self.config_type)
                 ELSE tagged
    IN  [typed EXCEPT !.children =
            @ \o CategoryLeaves(self, to_node_categories)
              \o to_node_dynamic(self.dynamic_properties)]

\* XMLPropertyGroup.get_string(tag, default)
get_string(self, tag, default) ==
    IF FirstWithTag(self.string_properties, tag) # 0
    THEN self.string_properties[FirstWithTag(self.string_properties, tag)].value
    ELSE IF FirstWithTag(self.filename_properties, tag) # 0
    THEN self.filename_properties[FirstWithTag(self.filename_properties, tag)].value
    ELSE default

\* XMLPropertyGroup.remove: [dpt, found]
remove_containers ==
    <<"feedback_sequence_properties", "boolean_properties", "filename_properties",
      "string_properties", "int_properties", "float_properties", "color_properties",
      "dynamic_properties">>

RemoveAt(seq, i) == SubSeq(seq, 1, i - 1) \o SubSeq(seq, i + 1, Len(seq))

RECURSIVE remove_from(_, _, _)
remove_from(self, tag, containers) ==
    IF containers = <<>> THEN [dpt |-> self, found |-> FALSE]
    ELSE LET container == containers[1]
             i == FirstWithTag(self[container], tag)
         IN  IF i # 0
             THEN [dpt |-> [self EXCEPT ![container] = RemoveAt(@, i)], found |-> TRUE]
             ELSE remove_from(self, tag, Tail(containers))
remove(self, tag) == remove_from(self, tag, remove_containers)

\* ---------------------------------------------------------------- utilities
\* utils.get_text(node, query, default_value) for a query of one part
get_text(node, query, default_value) ==
    LET i == find(node, query)
    IN  IF i = 0 \/ node.children[i].text = NoneText
        THEN default_value
        ELSE node.children[i].text

\* utils.get_text_and_delete(node, query, default_value) for a query of one
\* part: [node, text], the node without the first child of that tag.
delete_child(node, i, default_value) ==
    IF i = 0 THEN [node |-> node, text |-> default_value]
    ELSE [node |-> [node EXCEPT !.children = RemoveAt(@, i)],
          text |-> IF node.children[i].text = NoneText
                   THEN default_value ELSE node.children[i].text]
get_text_and_delete(node, query, default_value) ==
    delete_child(node, find(node, query), default_value)

\* utils.find_or_create(parent, tag) for a query of one part: the parent with
\* the child in place.
find_or_create(parent, tag) ==
    IF find(parent, tag) = 0
    THEN [parent EXCEPT !.children = Append(@, Elem(tag, <<>>))]
    ELSE parent

\* utils.find_or_create(parent, "first/second").text = text
set_grandchild_text(made, i, second, text) ==
    [made EXCEPT !.children[i] = find_or_create_text(@, second, text)]
find_or_create_path_text(parent, first, second, text) ==
    set_grandchild_text(find_or_create(parent, first),
                        IF find(parent, first) = 0 THEN Len(parent.children) + 1
                        ELSE find(parent, first), second, text)

LastIndexOf(t, c) ==
    IF \E i \in 1..Len(t) : t[i] = c
    THEN CHOOSE i \in 1..Len(t) : t[i] = c /\ \A j \in (i + 1)..Len(t) : t[j] # c
    ELSE 0

\* pathlib.Path(path).stem
Path_stem(path) ==
    LET p == rstrip(path, "/")
        name == SubSeq(p, LastIndexOf(p, "/") + 1, Len(p))
        i == LastIndexOf(name, ".")
    IN  IF 1 < i /\ i < Len(name) THEN SubSeq(name, 1, i - 1) ELSE name

\* str(value) of a Python float: the shortest text, at least one decimal
float_str(v) ==
    LET mag == IF v < 0 THEN 0 - v ELSE v
        frac == rstrip(PadNat(mag % Pow10(FloatFrac), FloatFrac), "0")
    IN  (IF v < 0 THEN <<"-">> ELSE <<>>)
          \o NatToText(mag \div Pow10(FloatFrac)) \o <<".">>
          \o (IF frac = <<>> THEN <<"0">> ELSE frac)

\* bpy.data.objects and bpy.data.materials are sequences; an object's parent
\* is its index in bpy.data.objects (0 for None).
Names(objs) == {objs[i].name : i \in 1..Len(objs)}
OtherNames(objs, k) == {objs[i].name : i \in (1..Len(objs)) \ {k}}

\* Blender gives a data block a name no other has: name, name.001, ...
unique_name(name, names) ==
    IF name \notin names THEN name
    ELSE name \o <<".">> \o PadNat(CHOOSE n \in 1..(Cardinality(names) + 1) :
                                    /\ (name \o <<".">> \o PadNat(n, 3)) \notin names
                                    /\ \A m \in 1..(n - 1) :
                                          (name \o <<".">> \o PadNat(m, 3)) \in names, 3)

\* ---------------------------------------------------------------- Transform
\* 1.0 in units of 10^-FloatFrac
One == Pow10(FloatFrac)

\* Transform.__init__(loc, rot, sca, anno_coords)
Transform_init(loc, rot, sca, anno_coords) ==
    [location |-> loc, rotation |-> rot, rotation_euler |-> <<0, 0, 0>>,
     euler_rotation |-> FALSE, scale |-> sca, anno_coords |-> anno_coords]

\* The lists that are the default arguments of Transform.__init__: one list
\* object each, made when the class is defined.
InitialDefaults ==
    [loc |-> <<0, 0, 0>>, rot |-> <<One, 0, 0, 0>>, sca |-> <<One, One, One>>]

\* Transform.get_component_value(component_name)
get_component_value(self, component_name) ==
    CASE component_name = "location.x" -> self.location[1]
      [] component_name = "location.y" -> self.location[2]
      [] component_name = "location.z" -> self.location[3]
      [] component_name = "rotation.w" -> self.rotation[1]
      [] component_name = "rotation.x" -> self.rotation[2]
      [] component_name = "rotation.y" -> self.rotation[3]
      [] component_name = "rotation.z" -> self.rotation[4]
      [] component_name = "rotation_euler.x" -> self.rotation_euler[1]
      [] component_name = "rotation_euler.y" -> self.rotation_euler[2]
      [] component_name = "rotation_euler.z" -> self.rotation_euler[3]
      [] component_name = "scale.x" -> self.scale[1]
      [] component_name = "scale.y" -> self.scale[2]
      [] component_name = "scale.z" -> self.scale[3]

\* float(text) of the text get_text_and_delete gave
float_of_text(r) ==
    IF float_ok(r.text)
    THEN [node |-> r.node, exc |-> "none", value |-> float_value(r.text)]
    ELSE [node |-> r.node, exc |-> "ValueError", value |-> 0]

\* Transform.get_component_from_node: [node, exc, value]; default is the text
\* of str(default).
get_component_from_node(node, transform_paths, component, default) ==
    IF component \notin DOMAIN transform_paths
    THEN [node |-> node, exc |-> "none", value |-> float_value(default)]
    ELSE float_of_text(get_text_and_delete(node, transform_paths[component], default))

\* The components from_node reads, in its order, and the default of each.
from_node_components(euler_rotation) ==
    <<"location.x", "location.y", "location.z", "scale.x", "scale.y", "scale.z">>
      \o (IF euler_rotation
          THEN <<"rotation_euler.x", "rotation_euler.y", "rotation_euler.z">>
          ELSE <<"rotation.w", "rotation.x", "rotation.y", "rotation.z">>)
from_node_default(component) ==
    IF component \in {"scale.x", "scale.y", "scale.z", "rotation.w"}
    THEN <<"1", ".", "0">> ELSE <<"0", ".", "0">>

\* The reads of from_node one after the other: [node, exc, values], values
\* holding what was read before an exception ended the reads.
RECURSIVE read_components(_, _, _, _)
RECURSIVE read_next(_, _, _, _)
read_next(r, transform_paths, components, values) ==
    IF r.exc # "none"
    THEN [node |-> r.node, exc |-> r.exc, values |-> values]
    ELSE read_components(r.node, transform_paths, components, Append(values, r.value))
read_components(node, transform_paths, components, values) ==
    IF components = <<>> THEN [node |-> node, exc |-> "none", values |-> values]
    ELSE read_next(get_component_from_node(node, transform_paths, components[1],
                                           from_node_default(components[1])),
                   transform_paths, Tail(components), values)

\* What Transform.from_node leaves behind when its reads ended as r: the
\* instance, and the shared default lists its item assignments wrote into.
from_node_instance(r, enforce_equal_scale, euler_rotation, defs) ==
    LET n == Len(r.values)
        val(i, old) == IF i <= n THEN r.values[i] ELSE old
        loc == <<val(1, defs.loc[1]), val(2, defs.loc[2]), val(3, defs.loc[3])>>
        sx == val(4, defs.sca[1])
        sca == IF enforce_equal_scale /\ n >= 6 THEN <<sx, sx, sx>>
               ELSE <<sx, val(5, defs.sca[2]), val(6, defs.sca[3])>>
        rot == IF euler_rotation THEN defs.rot
               ELSE <<val(7, defs.rot[1]), val(8, defs.rot[2]),
                      val(9, defs.rot[3]), val(10, defs.rot[4])>>
        eul == IF euler_rotation THEN <<val(7, 0), val(8, 0), val(9, 0)>> ELSE <<0, 0, 0>>
    IN  [transform |-> [location |-> loc, rotation |-> rot, rotation_euler |-> eul,
                        euler_rotation |-> euler_rotation /\ r.exc = "none",
                        scale |-> sca, anno_coords |-> TRUE],
         node |-> r.node, exc |-> r.exc,
         defaults |-> [loc |-> loc, rot |-> rot, sca |-> sca]]

\* Transform.from_node: [transform, node, exc, defaults].  cls() binds location,
\* rotation and scale to the shared default lists, and every item assignment
\* writes into them.
Transform_from_node(node, transform_paths, enforce_equal_scale, euler_rotation, defs) ==
    from_node_instance(
        read_components(node, transform_paths, from_node_components(euler_rotation), <<>>),
        enforce_equal_scale, euler_rotation, defs)

\* Transform.from_blender_object(obj, enforce_equal_scale, euler_rotation)
Transform_from_blender_object(object, enforce_equal_scale, euler_rotation) ==
    LET instance == Transform_init(object.location, <<One, 0, 0, 0>>, object.scale, FALSE)
    IN  IF ~euler_rotation
        THEN [instance EXCEPT !.rotation = object.rotation_quaternion]
        ELSE [instance EXCEPT !.rotation_euler = object.rotation_euler]

\* transform.py: Transform.convert_to_blender_coords, the preference given
convert_to_blender_coords(self, mirror) ==
    IF ~self.anno_coords THEN self
    ELSE [self EXCEPT
            !.location = IF mirror
                         THEN <<0 - self.location[1], 0 - self.location[3], self.location[2]>>
                         ELSE <<self.location[1], 0 - self.location[3], self.location[2]>>,
            !.rotation = IF mirror
                         THEN <<self.rotation[1], self.rotation[2], self.rotation[4],
                                0 - self.rotation[3]>>
                         ELSE <<self.rotation[1], self.rotation[2], self.rotation[4],
                                self.rotation[3]>>,
            !.rotation_euler = <<self.rotation_euler[1], self.rotation_euler[3],
                                 self.rotation_euler[2]>>,
            !.scale = <<self.scale[1], self.scale[3], self.scale[2]>>,
            !.anno_coords = FALSE]

\* transform.py: Transform.convert_to_anno_coords; its last statement reads
\* anno_coords and assigns nothing.
convert_to_anno_coords(self, mirror) ==
    IF self.anno_coords THEN self
    ELSE [self EXCEPT
            !.location = IF mirror
                         THEN <<0 - self.location[1], self.location[3], 0 - self.location[2]>>
                         ELSE <<self.location[1], self.location[3], 0 - self.location[2]>>,
            !.rotation = IF mirror
                         THEN <<self.rotation[1], self.rotation[2], 0 - self.rotation[4],
                                self.rotation[3]>>
                         ELSE <<self.rotation[1], self.rotation[2], self.rotation[4],
                                self.rotation[3]>>,
            !.rotation_euler = <<self.rotation_euler[1], self.rotation_euler[3],
                                 self.rotation_euler[2]>>,
            !.scale = <<self.scale[1], self.scale[3], self.scale[2]>>]

\* anno_objects.py: Transform.convert_to_blender_coords (always mirrored)
anno_objects_convert_to_blender_coords(self) ==
    IF ~self.anno_coords THEN self
    ELSE [self EXCEPT
            !.location = <<0 - self.location[1], 0 - self.location[3], self.location[2]>>,
            !.rotation = <<self.rotation[1], self.rotation[2], self.rotation[4],
                           0 - self.rotation[3]>>,
            !.rotation_euler = <<self.rotation_euler[1], self.rotation_euler[3],
                                 self.rotation_euler[2]>>,
            !.scale = <<self.scale[1], self.scale[3], self.scale[2]>>,
            !.anno_coords = FALSE]

\* anno_objects.py: Transform.convert_to_anno_coords
anno_objects_convert_to_anno_coords(self) ==
    IF self.anno_coords THEN self
    ELSE [self EXCEPT
            !.location = <<0 - self.location[1], self.location[3], 0 - self.location[2]>>,
            !.rotation = <<self.rotation[1], self.rotation[2], 0 - self.rotation[4],
                           self.rotation[3]>>,
            !.rotation_euler = <<self.rotation_euler[1], self.rotation_euler[3],
                                 self.rotation_euler[2]>>,
            !.scale = <<self.scale[1], self.scale[3], self.scale[2]>>]

\* anno_objects.py: Transform.apply_to(object), the object having no mesh
apply_to(self, object) ==
    LET t == IF self.anno_coords THEN anno_objects_convert_to_blender_coords(self) ELSE self
        placed == [object EXCEPT !.location = t.location, !.scale = t.scale]
    IN  IF ~t.euler_rotation
        THEN [placed EXCEPT !.rotation_mode = "QUATERNION",
                            !.rotation_quaternion = t.rotation]
        ELSE [placed EXCEPT !.rotation_mode = "XYZ", !.rotation_euler = t.rotation_euler]

\* ------------------------------------------------------------------- mapper
\* add_empty_to_scene(): a new empty at the origin
NewObject ==
    [name |-> <<>>, anno_object_class |-> "", parent |-> <<>>,
     location |-> <<0, 0, 0>>, rotation_mode |-> "XYZ",
     rotation_quaternion |-> <<One, 0, 0, 0>>, rotation_euler |-> <<0, 0, 0>>,
     scale |-> <<One, One, One>>, dynamic_properties |-> EmptyDPT,
     data |-> "none", materials |-> <<>>]

\* class Prop(AnnoObject)
Prop ==
    [name |-> "Prop", has_transform |-> TRUE, has_euler_rotation |-> FALSE,
     has_name |-> TRUE, enforce_equal_scale |-> FALSE, has_materials |-> FALSE,
     base_path |-> FALSE, child_anno_object_types |-> <<>>,
     transform_paths |->
        [c \in {"location.x", "location.y", "location.z",
                "rotation.x", "rotation.y", "rotation.z", "rotation.w",
                "scale.x", "scale.y", "scale.z"} |->
            CASE c = "location.x" -> "Position.x"
              [] c = "location.y" -> "Position.y"
              [] c = "location.z" -> "Position.z"
              [] c = "rotation.x" -> "Rotation.x"
              [] c = "rotation.y" -> "Rotation.y"
              [] c = "rotation.z" -> "Rotation.z"
              [] c = "rotation.w" -> "Rotation.w"
              [] c = "scale.x" -> "Scale.x"
              [] c = "scale.y" -> "Scale.y"
              [] c = "scale.z" -> "Scale.z"]]

\* AnnoObject.blender_name_from_node
blender_name_from_node(cls, node) ==
    LET found == get_text(node, "ConfigType", <<node.tag>>)
        config_type == IF found = <<"i">> THEN <<cls.name>> ELSE found
        file_name == Path_stem(get_text(node, "FileName", <<>>))
        name == get_text(node, "Name", file_name)
    IN  config_type \o <<"_">> \o name

\* xml_to_blender from obj.dynamic_properties.from_node(node) on
parse_properties(placed, t, parsed) ==
    [obj |-> [placed EXCEPT !.dynamic_properties = parsed.dpt],
     node |-> t.node, exc |-> parsed.exc, defaults |-> t.defaults]

\* xml_to_blender from transform.apply_to(obj) on, Transform.from_node having
\* ended as t
place_object(named, t, objs) ==
    IF t.exc # "none"
    THEN [obj |-> named, node |-> t.node, exc |-> t.exc, defaults |-> t.defaults]
    ELSE parse_properties(apply_to(t.transform, named), t,
                          from_node(EmptyDPT, t.node, objs))

\* AnnoObject.xml_to_blender for a class with a transform and without
\* base_path, materials and child classes, whose add_blender_object_to_scene
\* finds no model file: [obj, node, exc, defaults].  An exception ends the call
\* where it is raised.
xml_to_blender(cls, node, parent_object, defs, objs) ==
    place_object(
        [NewObject EXCEPT !.anno_object_class = cls.name,
                          !.name = blender_name_from_node(cls, node),
                          !.parent = parent_object],
        Transform_from_node(
            IF cls.has_name THEN get_text_and_delete(node, "Name", <<>>).node ELSE node,
            cls.transform_paths, cls.enforce_equal_scale, cls.has_euler_rotation, defs),
        objs)

\* ----------------------------------------------------------------- Material
\* Material.texture_definitions, in the order of the dict
texture_definitions ==
    << <<"cModelDiffTex", "DIFFUSE_ENABLED">>,
       <<"cModelNormalTex", "NORMAL_ENABLED">>,
       <<"cModelMetallicTex", "METALLIC_TEX_ENABLED">>,
       <<"cSeparateAOTex", "SEPARATE_AO_TEXTURE">>,
       <<"cHeightMap", "HEIGHT_MAP_ENABLED">>,
       <<"cNightGlowMap", "NIGHT_GLOW_ENABLED">>,
       <<"cDyeMask", "DYE_MASK_ENABLED">> >>
texture_keys == {texture_definitions[i][1] : i \in 1..Len(texture_definitions)}
color_definitions == <<"cDiffuseColor", "cEmissiveColor">>

\* Material.from_blender_material for a material whose shader nodes hold no
\* image and no colour node, and that has no custom property
from_blender_material(blender_material) ==
    [node |-> to_node(blender_material.dynamic_properties, Elem("Material", <<>>)),
     name |-> blender_material.name,
     textures |-> [t \in texture_keys |-> <<>>],
     texture_enabled |-> blender_material.enabled,
     colors |-> [c \in {color_definitions[i] : i \in 1..Len(color_definitions)} |->
                    <<One, One, One>>]]

RECURSIVE texture_leaves(_, _)
texture_leaves(self, definitions) ==
    IF definitions = <<>> THEN <<>>
    ELSE (IF self.textures[definitions[1][1]] # <<>>
          THEN <<Leaf(definitions[1][1], self.textures[definitions[1][1]])>>
          ELSE <<>>) \o texture_leaves(self, Tail(definitions))

RECURSIVE color_leaves(_, _)
color_leaves(self, names) ==
    IF names = <<>> THEN <<>>
    ELSE <<Leaf(names[1] \o ".r", format_float(self.colors[names[1]][1])),
           Leaf(names[1] \o ".g", format_float(self.colors[names[1]][2])),
           Leaf(names[1] \o ".b", format_float(self.colors[names[1]][3]))>>
           \o color_leaves(self, Tail(names))

\* str(used_value): the flag written without int()
texture_enabled_text_str(used_value) == IF used_value THEN <<"True">> ELSE <<"False">>

\* str(int(used_value))
texture_enabled_text(used_value) == IntToText(IF used_value THEN 1 ELSE 0)

RECURSIVE texture_enabled_flags(_, _, _)
texture_enabled_flags(self, node, definitions) ==
    IF definitions = <<>> THEN node
    ELSE texture_enabled_flags(self,
            find_or_create_text(node, definitions[1][2],
                                texture_enabled_text(self.texture_enabled[definitions[1][1]])),
            Tail(definitions))

\* Material.to_xml_node: the material's node as it is appended to the parent
to_xml_node(self) ==
    LET written == [self.node EXCEPT !.children =
                        @ \o <<Leaf("Name", self.name)>>
                          \o texture_leaves(self, texture_definitions)
                          \o color_leaves(self, color_definitions)]
    IN  texture_enabled_flags(self, written, texture_definitions)

\* Material.from_material_node: [name, textures, texture_enabled, colors,
\* custom_properties, node, exc]; the loop over texture_definitions
RECURSIVE read_textures(_, _)
texture_read(r, definition, deleted) ==
    IF ~int_ok(get_text(deleted.node, definition[2], <<"0">>))
    THEN [r EXCEPT !.node = deleted.node, !.exc = "ValueError"]
    ELSE [r EXCEPT !.node = deleted.node,
                   !.textures[definition[1]] = deleted.text,
                   !.texture_enabled[definition[1]] =
                       int_value(get_text(deleted.node, definition[2], <<"0">>)) # 0]
read_textures(r, definitions) ==
    IF definitions = <<>> \/ r.exc # "none" THEN r
    ELSE read_textures(
            texture_read(r, definitions[1],
                         get_text_and_delete(r.node, definitions[1][1], <<>>)),
            Tail(definitions))

\* color[i] = float(get_text_and_delete(material_node, color_name + ".r", 1.0))
color_read(r, name, i, deleted) ==
    IF ~float_ok(deleted.text)
    THEN [r EXCEPT !.node = deleted.node, !.exc = "ValueError"]
    ELSE [r EXCEPT !.node = deleted.node, !.colors[name][i] = float_value(deleted.text)]
color_channel(r, name, i, channel) ==
    IF r.exc # "none" THEN r
    ELSE color_read(r, name, i,
                    get_text_and_delete(r.node, name \o channel, <<"1", ".", "0">>))
RECURSIVE read_colors(_, _)
read_colors(r, names) ==
    IF names = <<>> \/ r.exc # "none" THEN r
    ELSE read_colors(
            color_channel(color_channel(color_channel(r, names[1], 1, ".r"),
                                        names[1], 2, ".g"),
                          names[1], 3, ".b"),
            Tail(names))

material_named(deleted) ==
    [name |-> deleted.text, node |-> deleted.node, exc |-> "none",
     textures |-> [t \in texture_keys |-> <<>>],
     texture_enabled |-> [t \in texture_keys |-> FALSE],
     colors |-> [c \in {color_definitions[i] : i \in 1..Len(color_definitions)} |->
                    <<One, One, One>>],
     custom_properties |-> <<>>]
from_material_node(material_node) ==
    read_colors(
        read_textures(
            material_named(get_text_and_delete(material_node, "Name",
                                               <<"Unnamed Material">>)),
            texture_definitions),
        color_definitions)

\* Material.get_material_cache_key: the hash of the tuple of the name, the
\* texture items, the colour items and the custom property items, equal
\* tuples and only equal tuples having equal hashes
get_material_cache_key(self) ==
    <<self.name, [i \in 1..Len(texture_definitions) |->
                     <<texture_definitions[i][1], self.textures[texture_definitions[i][1]]>>],
      [i \in 1..Len(color_definitions) |->
          <<color_definitions[i], self.colors[color_definitions[i]]>>],
      self.custom_properties>>

\* Material.as_blender_material on the state c = [materials, materialCache]:
\* [materials, materialCache, result, created, exc], result the index of the
\* material returned, 0 when the call raised
material_cached(c, key) ==
    [materials |-> c.materials, materialCache |-> c.materialCache,
     result |-> c.materialCache[key], created |-> FALSE, exc |-> "none"]
material_created(self, c, key, parsed) ==
    [materials |-> Append(c.materials,
                          [name |-> unique_name(self.name, Names(c.materials)),
                           enabled |-> self.texture_enabled,
                           dynamic_properties |-> parsed.dpt]),
     materialCache |-> IF parsed.exc = "none"
                       THEN (key :> (Len(c.materials) + 1)) @@ c.materialCache
                       ELSE c.materialCache,
     result |-> IF parsed.exc = "none" THEN Len(c.materials) + 1 ELSE 0,
     created |-> TRUE, exc |-> parsed.exc]
\* as_blender_material without the look-up in the cache
as_blender_material_uncached(self, c, key) ==
    material_created(self, c, key, from_node(EmptyDPT, self.node, {}))
as_blender_material_keyed(self, c, key) ==
    IF key \in DOMAIN c.materialCache THEN material_cached(c, key)
    ELSE material_created(self, c, key, from_node(EmptyDPT, self.node, {}))
as_blender_material(self, c) ==
    as_blender_material_keyed(self, c, get_material_cache_key(self))

\* ----------------------------------------------------------- FeedbackConfig
\* FeedbackConfigItem.__annotations__.keys()
FeedbackConfigItem_annotations ==
    <<"Description", "IgnoreRootObjectXZRotation", "IsAlwaysVisibleActor",
      "ApplyScaleToMovementSpeed", "ActorCount", "MaxActorCount", "CreateChance",
      "BoneLink", "RenderFlags", "MultiplyActorByDummyCount",
      "IgnoreForceActorVariation", "IgnoreDistanceScale", "m_MinScaleFactor",
      "m_MaxScaleFactor", "DefaultStateDummy", "StartDummyGroup">>

\* The BoolProperty fields of FeedbackConfigItem
FeedbackConfigItem_bools ==
    {"IgnoreRootObjectXZRotation", "IsAlwaysVisibleActor", "ApplyScaleToMovementSpeed",
     "IgnoreForceActorVariation", "IgnoreDistanceScale"}

\* A FeedbackConfigItem with the given BoolProperty values, every other field
\* at its default.  A field value is [type, value].
FeedbackConfigItem(bools) ==
    [prop \in {FeedbackConfigItem_annotations[i] : i \in 1..Len(FeedbackConfigItem_annotations)} |->
        CASE prop \in FeedbackConfigItem_bools -> [type |-> "bool", value |-> bools[prop]]
          [] prop = "Description" -> [type |-> "str", value |-> <<>>]
          [] prop = "BoneLink" -> [type |-> "str", value |-> <<"NoLink">>]
          [] prop \in {"ActorCount", "MaxActorCount"} -> [type |-> "int", value |-> 1]
          [] prop = "CreateChance" -> [type |-> "int", value |-> 100]
          [] prop = "RenderFlags" -> [type |-> "int", value |-> 0]
          [] prop \in {"m_MinScaleFactor", "m_MaxScaleFactor"} ->
                [type |-> "float", value |-> One \div 2]
          [] OTHER -> [type |-> "NoneType", value |-> <<>>]]

\* str(value), after property_node_to_node formatted a float and replaced a
\* scene object by the Name of its property tree
str(v) ==
    CASE v.type = "bool" -> IF v.value THEN <<"True">> ELSE <<"False">>
      [] v.type = "int" -> IntToText(v.value)
      [] v.type = "float" -> format_float(v.value)
      [] v.type = "NoneType" -> <<"None">>
      [] OTHER -> v.value

RECURSIVE feedback_properties(_, _, _)
feedback_properties(node, item, props) ==
    IF props = <<>> THEN node
    ELSE IF props[1] \in {"m_MinScaleFactor", "m_MaxScaleFactor"}
    THEN feedback_properties(node, item, Tail(props))
    ELSE feedback_properties(find_or_create_text(node, props[1], str(item[props[1]])),
                             item, Tail(props))

RECURSIVE guid_leaves(_)
guid_leaves(guid_list) ==
    IF guid_list = <<>> THEN <<>>
    ELSE <<Leaf("GUID", IF guid_list[1].guid_type # "Custom"
                        THEN guid_list[1].guid ELSE guid_list[1].custom_guid)>>
           \o guid_leaves(Tail(guid_list))

\* The entries of one sequence item, by its animation type
sequence_entries(seq_item) ==
    CASE seq_item.animation_type = "Walk" ->
            <<Leaf("WalkSequence", seq_item.sequence),
              Leaf("SpeedFactorF", float_str(seq_item.speed_factor_f))>>
              \o (IF seq_item.target_empty # <<>>
                  THEN <<Leaf("TargetDummy", seq_item.target_empty)>> ELSE <<>>)
      [] seq_item.animation_type = "IdleAnimation" ->
            <<Leaf("m_IdleSequenceID", seq_item.sequence),
              Leaf("MinPlayCount", IntToText(seq_item.min_play_count)),
              Leaf("MaxPlayCount", IntToText(seq_item.max_play_count))>>
      [] seq_item.animation_type = "TimedIdleAnimation" ->
            <<Leaf("m_IdleSequenceID", seq_item.sequence),
              Leaf("MinPlayTime", float_str(seq_item.min_play_time)),
              Leaf("MaxPlayTime", float_str(seq_item.max_play_time))>>
      [] OTHER -> <<>>

RECURSIVE sequence_elements(_)
sequence_elements(sequence_list) ==
    IF sequence_list = <<>> THEN <<>>
    ELSE <<Elem(sequence_list[1].animation_type, sequence_entries(sequence_list[1]))>>
           \o sequence_elements(Tail(sequence_list))

\* ET.SubElement(find_or_create(node, tag), ...) for every given child
append_to_child(node, i, children) ==
    [node EXCEPT !.children[i].children = @ \o children]
find_or_create_children(node, tag, children) ==
    append_to_child(find_or_create(node, tag), IF find(node, tag) = 0
                                               THEN Len(node.children) + 1
                                               ELSE find(node, tag), children)

\* FeedbackConfig.property_node_to_node(node, obj)
property_node_to_node(node, object) ==
    [find_or_create_children(
        find_or_create_children(
            find_or_create_path_text(
                find_or_create_path_text(
                    feedback_properties(node, object.feedback_config_item,
                                        FeedbackConfigItem_annotations),
                    "Scale", "m_MinScaleFactor",
                    format_float(object.feedback_config_item["m_MinScaleFactor"].value)),
                "Scale", "m_MaxScaleFactor",
                format_float(object.feedback_config_item["m_MaxScaleFactor"].value)),
            "GUIDVariationList", guid_leaves(object.feedback_guid_list)),
        "SequenceElements", sequence_elements(object.feedback_sequence_list))
     EXCEPT !.tag = "FeedbackConfig"]

\* -------------------------------------------------------------------- scene
\* The files below the rda folder and the mod folder, by data path: a converted
\* model (.glb), a .cfg file with its root element, a .prp file with its
\* MeshFileName.
Files ==
    [p \in {<<"m", ".", "g", "l", "b">>, <<"s", ".", "c", "f", "g">>,
            <<"p", ".", "p", "r", "p">>} |->
        CASE p = <<"m", ".", "g", "l", "b">> -> [kind |-> "glb"]
          [] p = <<"s", ".", "c", "f", "g">> ->
                [kind |-> "cfg", root |-> Elem("Config", <<Leaf("B", <<"a">>)>>)]
          [] p = <<"p", ".", "p", "r", "p">> ->
                [kind |-> "prp", MeshFileName |-> <<"m", ".", "r", "d", "m">>]]

\* pathlib.Path(path).name and Path(path).with_suffix(suffix)
Path_name(path) ==
    SubSeq(rstrip(path, "/"), LastIndexOf(rstrip(path, "/"), "/") + 1, Len(rstrip(path, "/")))
Path_suffix(path) ==
    IF 1 < LastIndexOf(Path_name(path), ".")
          /\ LastIndexOf(Path_name(path), ".") < Len(Path_name(path))
    THEN SubSeq(Path_name(path), LastIndexOf(Path_name(path), "."), Len(Path_name(path)))
    ELSE <<>>
Path_with_suffix(path, suffix) ==
    SubSeq(rstrip(path, "/"), 1, Len(rstrip(path, "/")) - Len(Path_suffix(path))) \o suffix

\* The classes of anno_objects.py that MainFile declares containers for
\* (Prop is defined with the mapper).  transform_paths is the dict without its base_path entry.
OrientationPaths(scale_x, scale_y, scale_z) ==
    [c \in {"location.x", "location.y", "location.z",
            "rotation.x", "rotation.y", "rotation.z", "rotation.w",
            "scale.x", "scale.y", "scale.z"} |->
        CASE c = "location.x" -> "Position.x"
          [] c = "location.y" -> "Position.y"
          [] c = "location.z" -> "Position.z"
          [] c = "rotation.x" -> "Rotation.x"
          [] c = "rotation.y" -> "Rotation.y"
          [] c = "rotation.z" -> "Rotation.z"
          [] c = "rotation.w" -> "Rotation.w"
          [] c = "scale.x" -> scale_x
          [] c = "scale.y" -> scale_y
          [] c = "scale.z" -> scale_z]

AnnoObject ==
    [name |-> "AnnoObject", has_transform |-> FALSE, has_euler_rotation |-> FALSE,
     has_name |-> TRUE, enforce_equal_scale |-> FALSE, has_materials |-> FALSE,
     base_path |-> FALSE, transform_paths |-> <<>>, child_anno_object_types |-> <<>>]
Model ==
    [AnnoObject EXCEPT !.name = "Model", !.has_transform = TRUE, !.base_path = TRUE,
                       !.transform_paths = OrientationPaths("Scale", "Scale", "Scale"),
                       !.enforce_equal_scale = TRUE, !.has_materials = TRUE]
Cloth == [Model EXCEPT !.name = "Cloth"]
SubFile == [Model EXCEPT !.name = "SubFile", !.has_materials = FALSE]
Particle == [SubFile EXCEPT !.name = "Particle"]
Light == [SubFile EXCEPT !.name = "Light"]
Decal ==
    [AnnoObject EXCEPT !.name = "Decal", !.has_transform = TRUE, !.has_materials = TRUE,
                       !.transform_paths =
                           [c \in {"scale.x", "scale.y", "scale.z"} |->
                               CASE c = "scale.x" -> "Extents.x"
                                 [] c = "scale.y" -> "Extents.y"
                                 [] c = "scale.z" -> "Extents.z"]]
Propcontainer ==
    [AnnoObject EXCEPT !.name = "Propcontainer", !.has_transform = TRUE, !.base_path = TRUE,
                       !.transform_paths = OrientationPaths("Scale.x", "Scale.y", "Scale.z"),
                       !.enforce_equal_scale = TRUE,
                       !.child_anno_object_types = << <<"Props", "Prop">> >>]
MainFile ==
    [AnnoObject EXCEPT !.name = "MainFile", !.has_name = FALSE,
                       !.child_anno_object_types =
                           << <<"Models", "Model">>, <<"Clothes", "Cloth">>,
                              <<"Files", "SubFile">>, <<"PropContainers", "Propcontainer">>,
                              <<"Particles", "Particle">>, <<"Lights", "Light">>,
                              <<"Decals", "Decal">> >>]
NoAnnoObject == [AnnoObject EXCEPT !.name = "NoAnnoObject"]

\* The animation track: an object without name and transform whose
\* TrackElement trees refer to models, and the file class with its container.
Track == [AnnoObject EXCEPT !.name = "Track", !.has_name = FALSE]
TrackedMainFile ==
    [MainFile EXCEPT !.child_anno_object_types = @ \o << <<"Tracks", "Track">> >>]

\* str_to_class(classname)
str_to_class(classname) ==
    CASE classname = "Model" -> Model
      [] classname = "Cloth" -> Cloth
      [] classname = "SubFile" -> SubFile
      [] classname = "Particle" -> Particle
      [] classname = "Light" -> Light
      [] classname = "Decal" -> Decal
      [] classname = "Propcontainer" -> Propcontainer
      [] classname = "Prop" -> Prop
      [] classname = "MainFile" -> MainFile
      [] classname = "Track" -> Track
      [] OTHER -> NoAnnoObject

\* The import works on [objects, defaults, exc, obj]: the scene, the shared
\* default lists of Transform.__init__, the exception raised so far and the
\* index of the object last returned.
\* bpy.ops.object.*_add / import_scene.gltf, then bpy.context.active_object
bpy_add(b, object) ==
    [b EXCEPT !.objects = Append(@, [object EXCEPT
                                        !.name = unique_name(object.name, Names(b.objects))]),
              !.obj = Len(b.objects) + 1]

\* add_empty_to_scene()
add_empty_to_scene(b) ==
    bpy_add(b, [NewObject EXCEPT !.name = <<"Empty">>, !.parent = 0,
                                 !.anno_object_class = "NoAnnoObject"])

\* import_model_to_scene(data_path): obj = 0 stands for None
import_model_to_scene(data_path, b) ==
    IF data_path = <<>> THEN add_empty_to_scene(b)
    ELSE IF Path_with_suffix(data_path, <<".", "g", "l", "b">>) \notin DOMAIN Files
    THEN [b EXCEPT !.obj = 0]
    ELSE bpy_add(b, [NewObject EXCEPT !.name = <<"Mesh">>, !.parent = 0, !.data = "mesh",
                                      !.anno_object_class = "NoAnnoObject"])

\* add_blender_object_to_scene returning the None of a missing model file:
\* set_anno_object_class(None, cls) raises
or_none(r, b) == IF r.obj = 0 THEN [b EXCEPT !.exc = "AttributeError"] ELSE r

\* if imported_obj is None: return add_empty_to_scene()
or_empty(r, b) == IF r.obj = 0 THEN add_empty_to_scene(b) ELSE r

\* Prop.get_prop_data(prop_filename)[0]: the model file name, <<>> for None
get_prop_data(prop_filename) ==
    IF prop_filename \notin DOMAIN Files
          \/ Path_suffix(prop_filename) # <<".", "p", "r", "p">>
    THEN <<>>
    ELSE Files[prop_filename].MeshFileName

\* node.find(cls.transform_paths["base_path"]): the places <<i, j>> of the
\* first Transformer child and its first Config child whose ConfigType is
\* ORIENTATION_TRANSFORM, <<0, 0>> for None
is_orientation_transform(e) ==
    /\ e.tag = "Config"
    /\ \E k \in 1..Len(e.children) :
          /\ e.children[k].tag = "ConfigType"
          /\ e.children[k].text = <<"ORIENTATION_TRANSFORM">>
base_path_places(node) ==
    {p \in (1..Len(node.children)) \X (1..MaxChildren) :
        /\ node.children[p[1]].tag = "Transformer"
        /\ p[2] <= Len(node.children[p[1]].children)
        /\ is_orientation_transform(node.children[p[1]].children[p[2]])}
find_base_path(cls, node) ==
    IF ~cls.base_path \/ base_path_places(node) = {} THEN <<0, 0>>
    ELSE CHOOSE p \in base_path_places(node) :
            \A q \in base_path_places(node) :
                p[1] < q[1] \/ (p[1] = q[1] /\ p[2] <= q[2])
transform_node(node, at) ==
    IF at = <<0, 0>> THEN node ELSE node.children[at[1]].children[at[2]]
with_transform_node(node, at, transform_node_after) ==
    IF at = <<0, 0>> THEN transform_node_after
    ELSE [node EXCEPT !.children[at[1]].children[at[2]] = transform_node_after]

\* The Model objects below the parent of object k, in scene order.
RECURSIVE sibling_models(_, _, _)
sibling_models(objs, parent, i) ==
    IF i > Len(objs) THEN <<>>
    ELSE (IF objs[i].parent = parent /\ objs[i].anno_object_class = "Model"
          THEN <<i>> ELSE <<>>) \o sibling_models(objs, parent, i + 1)

\* Reference resolution on parse: the ModelID leaf of a track element, an
\* index into the imported models, becomes a BlenderModelID leaf naming that
\* model.
resolve_index(e, objs, models) ==
    IF e.tag = "TrackElement" /\ find(e, "ModelID") # 0
          /\ int_ok(get_text(e, "ModelID", <<>>))
          /\ int_value(get_text(e, "ModelID", <<>>)) \in 0..(Len(models) - 1)
    THEN [e EXCEPT !.children[find(e, "ModelID")] =
            Leaf("BlenderModelID",
                 objs[models[int_value(get_text(e, "ModelID", <<>>)) + 1]].name)]
    ELSE e

\* Reference resolution on serialise: the position among the models now
\* below the parent of the model of that name, 0 when there is none.
RECURSIVE ordinal_position(_, _, _, _)
ordinal_position(name, objs, models, i) ==
    IF i > Len(models) THEN 0
    ELSE IF objs[models[i]].name = name THEN i - 1
    ELSE ordinal_position(name, objs, models, i + 1)
resolve_reference(e, objs, models) ==
    IF e.tag = "TrackElement" /\ find(e, "BlenderModelID") # 0
    THEN [e EXCEPT !.children[find(e, "BlenderModelID")] =
            Leaf("ModelID",
                 IntToText(ordinal_position(
                               get_text(e, "BlenderModelID", <<>>),
                               objs, models, 1)))]
    ELSE e

\* cls.node_to_property_node(node, obj) and cls.property_node_to_node(node, obj):
\* AnnoObject's return the node, Track's resolve the references of the track
\* elements
cls_node_to_property_node(cls, node, objs, k) ==
    IF cls.name # "Track" THEN node
    ELSE [node EXCEPT !.children =
            [i \in 1..Len(node.children) |->
                resolve_index(node.children[i], objs,
                              sibling_models(objs, objs[k].parent, 1))]]
cls_property_node_to_node(cls, node, objs, k) ==
    IF cls.name # "Track" THEN node
    ELSE [node EXCEPT !.children =
            [i \in 1..Len(node.children) |->
                resolve_reference(node.children[i], objs,
                                  sibling_models(objs, objs[k].parent, 1))]]

RECURSIVE AnnoObject_xml_to_blender(_, _, _, _)
RECURSIVE add_blender_object_to_scene(_, _, _)
RECURSIVE add_children_from_xml(_, _, _, _)
RECURSIVE import_subnodes(_, _, _, _)

\* file_obj.name = name, file_obj.parent = parent of what an import returned
renamed(r, name) ==
    IF r.exc # "none" THEN r
    ELSE [r EXCEPT !.objects[r.obj].name = unique_name(name, OtherNames(r.objects, r.obj))]
parented(r, parent_object) ==
    IF r.exc # "none" THEN r
    ELSE [r EXCEPT !.objects[r.obj].parent = parent_object, !.obj = parent_object]

\* SubFile.load_subfile(data_path); data_path is never None, get_text gave
\* str(None)
load_subfile(data_path, b) ==
    IF data_path \notin DOMAIN Files THEN add_empty_to_scene(b)
    ELSE IF Files[data_path].kind # "cfg" THEN [b EXCEPT !.exc = "ParseError"]
    ELSE renamed(AnnoObject_xml_to_blender(MainFile, Files[data_path].root, 0, b),
                 <<"MAIN", "_", "FILE", "_">> \o Path_name(data_path))

\* cls.add_blender_object_to_scene(node)
add_blender_object_to_scene(cls, node, b) ==
    CASE cls.name \in {"Model", "Cloth"} ->
            or_empty(import_model_to_scene(get_text(node, "FileName", <<>>), b), b)
      [] cls.name = "Prop" ->
            or_empty(import_model_to_scene(
                         get_prop_data(get_text(node, "FileName", <<>>)), b), b)
      [] cls.name = "SubFile" ->
            parented(load_subfile(get_text(node, "FileName", <<"None">>),
                                  add_empty_to_scene(b)),
                     Len(b.objects) + 1)
      [] cls.name = "Decal" ->
            bpy_add(b, [NewObject EXCEPT !.name = <<"Plane">>, !.parent = 0, !.data = "mesh",
                                         !.anno_object_class = "NoAnnoObject"])
      [] cls.name = "Light" ->
            bpy_add(b, [NewObject EXCEPT !.name = <<"Point">>, !.parent = 0, !.data = "light",
                                         !.anno_object_class = "NoAnnoObject"])
      [] OTHER -> add_empty_to_scene(b)

\* set_anno_object_class(obj, cls), obj.name = ..., obj.parent = parent_object
name_object(a, cls, name, parent_object) ==
    [a EXCEPT !.objects[a.obj] =
        [@ EXCEPT !.anno_object_class = cls.name,
                  !.name = unique_name(name, OtherNames(a.objects, a.obj)),
                  !.parent = IF parent_object # 0 THEN parent_object ELSE @]]

\* obj.dynamic_properties.from_node(node) having ended as parsed
properties_parsed(k, a, parsed) ==
    [a EXCEPT !.objects[k].dynamic_properties = parsed.dpt, !.exc = parsed.exc, !.obj = k]
\* xml_to_blender after add_children_from_xml left c = [state, node]
xml_to_blender_properties(cls, k, c) ==
    IF c.state.exc # "none" THEN c.state
    ELSE properties_parsed(k, c.state,
             from_node(c.state.objects[k].dynamic_properties,
                       cls_node_to_property_node(cls, c.node, c.state.objects, k),
                       Names(c.state.objects)))

\* The loop of add_children_from_xml over the elements of one container
import_subnodes(subcls, subnodes, k, a) ==
    IF subnodes = <<>> \/ a.exc # "none" THEN a
    ELSE import_subnodes(subcls, Tail(subnodes), k,
                         AnnoObject_xml_to_blender(subcls, subnodes[1], k, a))

\* cls.add_children_from_xml(node, obj): [state, node]
add_children_from_xml(types, node, k, a) ==
    IF types = <<>> \/ a.exc # "none" THEN [state |-> a, node |-> node]
    ELSE IF find(node, types[1][1]) = 0 THEN add_children_from_xml(Tail(types), node, k, a)
    ELSE add_children_from_xml(
            Tail(types),
            [node EXCEPT !.children = RemoveAt(@, find(node, types[1][1]))], k,
            import_subnodes(str_to_class(types[1][2]),
                            node.children[find(node, types[1][1])].children, k, a))

\* xml_to_blender from "if cls.has_materials" on, for an element whose
\* Materials element holds no material and a class whose node_to_property_node
\* is AnnoObject's
xml_to_blender_children(cls, node, a) ==
    xml_to_blender_properties(cls, a.obj,
        add_children_from_xml(
            cls.child_anno_object_types,
            IF cls.has_materials /\ find(node, "Materials") # 0
            THEN [node EXCEPT !.children = RemoveAt(@, find(node, "Materials"))]
            ELSE node,
            a.obj, a))

\* xml_to_blender after Transform.from_node ended as t on the element at `at`
xml_to_blender_transformed(cls, node, a, at, t) ==
    IF t.exc # "none" THEN [a EXCEPT !.exc = t.exc, !.defaults = t.defaults]
    ELSE xml_to_blender_children(cls, with_transform_node(node, at, t.node),
             [a EXCEPT !.defaults = t.defaults,
                       !.objects[a.obj] = apply_to(t.transform, @)])
xml_to_blender_transform(cls, node, a, at) ==
    IF ~cls.has_transform THEN xml_to_blender_children(cls, node, a)
    ELSE xml_to_blender_transformed(cls, node, a, at,
             Transform_from_node(transform_node(node, at), cls.transform_paths,
                                 cls.enforce_equal_scale, cls.has_euler_rotation,
                                 a.defaults))

\* xml_to_blender after add_blender_object_to_scene left a
xml_to_blender_added(cls, node, parent_object, a) ==
    IF a.exc # "none" THEN a
    ELSE xml_to_blender_transform(
            cls,
            IF cls.has_name THEN get_text_and_delete(node, "Name", <<>>).node ELSE node,
            name_object(a, cls, blender_name_from_node(cls, node), parent_object),
            find_base_path(cls, IF cls.has_name
                                THEN get_text_and_delete(node, "Name", <<>>).node ELSE node))

\* AnnoObject.xml_to_blender(node, parent_object) of any class, in a scene
AnnoObject_xml_to_blender(cls, node, parent_object, b) ==
    xml_to_blender_added(cls, node, parent_object, add_blender_object_to_scene(cls, node, b))

\* ImportAnnoCfg.import_cfg_file(absolute_path, name) of a file with that root
import_cfg_file(root, name, b) ==
    renamed(AnnoObject_xml_to_blender(MainFile, root, 0, b), name)

\* AnnoObject.anno_name_from_blender_object(obj): what follows the first "_"
anno_name_from_blender_object(object) ==
    IF \E i \in 1..Len(object.name) : object.name[i] = "_"
    THEN SubSeq(object.name,
                (CHOOSE i \in 1..Len(object.name) :
                    /\ object.name[i] = "_"
                    /\ \A j \in 1..(i - 1) : object.name[j] # "_") + 1,
                Len(object.name))
    ELSE object.name

\* The keys of a transform_paths dict other than base_path, in its order
transform_components ==
    <<"location.x", "location.y", "location.z", "rotation.x", "rotation.y", "rotation.z",
      "rotation.w", "scale.x", "scale.y", "scale.z">>

\* The loop of blender_to_xml over cls.transform_paths.items()
RECURSIVE write_components(_, _, _, _)
write_components(transform_node_, transform_paths, transform_, components) ==
    IF components = <<>> THEN transform_node_
    ELSE IF components[1] \notin DOMAIN transform_paths
    THEN write_components(transform_node_, transform_paths, transform_, Tail(components))
    ELSE write_components(
            find_or_create_text(transform_node_, transform_paths[components[1]],
                                format_float(get_component_value(transform_, components[1]))),
            transform_paths, transform_, Tail(components))

\* find_or_create(node, cls.transform_paths["base_path"]): the node with the
\* Transformer and its ORIENTATION_TRANSFORM Config in place, and their places
orientation_config(transformer) ==
    IF \E j \in 1..Len(transformer.children) :
            is_orientation_transform(transformer.children[j])
    THEN CHOOSE j \in 1..Len(transformer.children) :
            /\ is_orientation_transform(transformer.children[j])
            /\ \A m \in 1..(j - 1) : ~is_orientation_transform(transformer.children[m])
    ELSE 0
find_or_create_config(transformer) ==
    IF orientation_config(transformer) # 0 THEN transformer
    ELSE [transformer EXCEPT !.children =
            Append(@, Elem("Config", <<Leaf("ConfigType", <<"ORIENTATION_TRANSFORM">>)>>))]
find_or_create_base_path(node) ==
    [find_or_create(node, "Transformer") EXCEPT
        !.children[find(find_or_create(node, "Transformer"), "Transformer")] =
            find_or_create_config(@)]

\* blender_to_xml writing the transform of obj into node
transform_written(cls, node, i, transform_) ==
    IF ~cls.base_path
    THEN write_components(node, cls.transform_paths, transform_, transform_components)
    ELSE [node EXCEPT !.children[i].children[orientation_config(node.children[i])] =
            write_components(@, cls.transform_paths, transform_, transform_components)]
write_transform(cls, node, object) ==
    IF ~cls.has_transform THEN node
    ELSE transform_written(
            cls,
            IF cls.base_path THEN find_or_create_base_path(node) ELSE node,
            IF cls.base_path
            THEN find(find_or_create(node, "Transformer"), "Transformer") ELSE 0,
            anno_objects_convert_to_anno_coords(
                Transform_from_blender_object(object, cls.enforce_equal_scale,
                                              cls.has_euler_rotation)))

\* The loop of blender_to_xml over obj.data.materials
RECURSIVE material_nodes(_)
material_nodes(materials) ==
    IF materials = <<>> THEN <<>>
    ELSE <<to_xml_node(from_blender_material(materials[1]))>>
           \o material_nodes(Tail(materials))

\* ExportAnnoCfg.initialize_child_map()[obj.name]: the children of object k
RECURSIVE children_by_object(_, _, _)
children_by_object(objs, k, i) ==
    IF i > Len(objs) THEN <<>>
    ELSE (IF objs[i].parent = k THEN <<i>> ELSE <<>>) \o children_by_object(objs, k, i + 1)

\* container_name_by_subclass.get(subcls): "" for a class without container
RECURSIVE container_name_by_subclass(_, _)
container_name_by_subclass(types, classname) ==
    IF types = <<>> THEN ""
    ELSE IF container_name_by_subclass(Tail(types), classname) # ""
    THEN container_name_by_subclass(Tail(types), classname)
    ELSE IF types[1][2] = classname THEN types[1][1] ELSE ""

RECURSIVE blender_to_xml(_, _, _)
RECURSIVE add_children_from_obj(_, _, _, _)

\* cls.add_children_from_obj(obj, node, child_map)
add_children_from_obj(cls, children, node, objs) ==
    IF children = <<>> THEN node
    ELSE IF objs[children[1]].anno_object_class = "NoAnnoObject"
            \/ container_name_by_subclass(cls.child_anno_object_types,
                                          objs[children[1]].anno_object_class) = ""
    THEN add_children_from_obj(cls, Tail(children), node, objs)
    ELSE add_children_from_obj(
            cls, Tail(children),
            find_or_create_children(
                node,
                container_name_by_subclass(cls.child_anno_object_types,
                                           objs[children[1]].anno_object_class),
                <<blender_to_xml(str_to_class(objs[children[1]].anno_object_class),
                                 children[1], objs)>>),
            objs)

\* blender_to_xml from "if cls.has_materials" on
materials_written(cls, node, object) ==
    IF cls.has_materials
    THEN find_or_create_children(node, "Materials", material_nodes(object.materials))
    ELSE node

\* AnnoObject.blender_to_xml(obj, parent_node, child_map): the node it returns,
\* for a class whose property_node_to_node is AnnoObject's
blender_to_xml(cls, k, objs) ==
    add_children_from_obj(
        cls, children_by_object(objs, k, 1),
        materials_written(
            cls,
            write_transform(
                cls,
                IF cls.has_name
                THEN find_or_create_text(
                        cls_property_node_to_node(
                            cls, to_node(objs[k].dynamic_properties, Elem("AnnoObject", <<>>)),
                            objs, k),
                        "Name", anno_name_from_blender_object(objs[k]))
                ELSE cls_property_node_to_node(
                         cls, to_node(objs[k].dynamic_properties, Elem("AnnoObject", <<>>)),
                         objs, k),
                objs[k]),
            objs[k]),
        objs)

\* -------------------------------------------------------------------- state
VARIABLES
    objects,    \* bpy.data.objects: the names of the scene's objects
    dpt,        \* the XMLPropertyGroup under work
    exc,        \* the exception the last operation raised, or "none"
    source,     \* the element last handed to from_node / xml_to_blender
    node,       \* the element last produced by a serialiser
    pc,         \* "new", "parsed", "exported", "reparsed", "imported", "written"
    edits,      \* the number of edit operations so far
    last,       \* the last call of set: its arguments, its converter, the tree before and after
    dpt2,       \* the fresh XMLPropertyGroup that parsed node
    removed,    \* the last call of remove: its tag, its result, the tree before and after
    transform,      \* the Transform under conversion
    original,       \* that Transform as it was constructed
    mirror_models,  \* IO_AnnocfgPreferences.mirror_models()
    module,         \* the module whose Transform class is used
    conversions,    \* the conversions applied to transform, or the constructions, in order
    converted,      \* transform as each of those conversions left it, or what each
                    \* construction returned
    obj,        \* the scene object xml_to_blender created
    defaults,   \* the default lists of Transform.__init__, shared by all calls
    writer,     \* the serialiser that produced node
    subject,    \* what that serialiser was given
    scene,      \* bpy.data.objects of the scene a .cfg file is imported into
    main_obj,   \* the index in scene of the imported MainFile object, 0 for none
    materials,      \* bpy.data.materials
    materialCache,  \* Material.materialCache: cache key -> index in materials
    returned,       \* what each call of as_blender_material returned, in order
    operation,      \* the number of the import operation under way
    main_file_obj,              \* the object get_main_file_obj is at, an index in scene
    unique_names,               \* UniqueNamer.unique_names
    unique_id_counter,          \* UniqueNamer.unique_id_counter
    feedback_sequence_list,         \* the active object's feedback_sequence_list
    feedback_sequence_list_index,   \* and its feedback_sequence_list_index
    original_to_duplicate   \* DuplicateAnnoObject.original_to_duplicate: name -> name

dptVars == <<objects, dpt, exc, source, node, pc, edits, last, dpt2, removed>>
trVars == <<transform, original, mirror_models, module, conversions, converted>>
mapVars == <<obj, defaults>>
boolVars == <<writer, subject>>
sceneVars == <<scene, main_obj>>
matVars == <<materials, materialCache, returned, operation>>
uiVars == <<main_file_obj, unique_names, unique_id_counter,
            feedback_sequence_list, feedback_sequence_list_index, original_to_duplicate>>
vars == <<dptVars, trVars, mapVars, boolVars, sceneVars, matVars, uiVars>>

NoTransform == Transform_init(<<0, 0, 0>>, <<1, 0, 0, 0>>, <<1, 1, 1>>, TRUE)
NoSubject == [kind |-> "none"]

\* The parts of the state a specification does not use stay as they start.
UiIdle ==
    /\ main_file_obj = 0
    /\ unique_names = {}
    /\ unique_id_counter = 0
    /\ feedback_sequence_list = <<>>
    /\ feedback_sequence_list_index = 0
    /\ original_to_duplicate = <<>>
TransformIdle ==
    /\ transform = NoTransform
    /\ original = NoTransform
    /\ mirror_models = TRUE
    /\ module = "anno_objects"
    /\ conversions = <<>>
    /\ converted = <<>>
MapperIdle ==
    /\ obj = NewObject
    /\ defaults = InitialDefaults
WriterIdle ==
    /\ writer = "none"
    /\ subject = NoSubject
SceneIdle ==
    /\ scene = <<>>
    /\ main_obj = 0
MaterialIdle ==
    /\ materials = <<>>
    /\ materialCache = <<>>
    /\ returned = <<>>
    /\ operation = 1

NoNode == Elem("", <<>>)
NoCall ==
    [tag |-> "", value_string |-> <<>>, replace |-> FALSE, converter |-> "none",
     before |-> EmptyDPT, after |-> EmptyDPT]
NoRemoval == [tag |-> "", found |-> FALSE, before |-> EmptyDPT, after |-> EmptyDPT]

ColorText == <<"_COLOR[", "1", ",", " ", "0", ",", " ", "0", "]">>

\* The leaves and nested elements the generated documents are made of.
LeafPool ==
    { Leaf("ConfigType", <<"a">>),
      Leaf("FileName", <<"a">>),
      Leaf("AdaptTerrainHeight", <<"2">>),
      Leaf("SequenceID", <<"1", "0", "0", "0">>),
      Leaf("BlenderModelID", <<"o">>),
      Leaf("A", <<"-", "5">>),
      Leaf("A", <<"1", ".", "5">>),
      Leaf("B", <<"a">>),
      Leaf("A", NoneText),
      Leaf("C", ColorText) }

NestedPool ==
    { Elem("S", <<Leaf("A", <<"5">>)>>),
      Elem("S", <<Leaf("ConfigType", NoneText)>>),
      Elem("T", <<Leaf("AdaptTerrainHeight", <<"0">>), Elem("S", <<Leaf("B", <<"a">>)>>)>>) }

ChildSeqs(pool, n) == UNION {[1..k -> pool] : k \in 0..n}
ParseElements == {Elem("Config", cs) : cs \in ChildSeqs(LeafPool \cup NestedPool, MaxChildren)}

DptInit ==
    /\ objects = {<<"o">>}
    /\ dpt = EmptyDPT
    /\ exc = "none"
    /\ source = NoNode
    /\ node = NoNode
    /\ pc = "new"
    /\ edits = 0
    /\ last = NoCall
    /\ dpt2 = EmptyDPT
    /\ removed = NoRemoval
    /\ TransformIdle /\ MapperIdle /\ WriterIdle /\ SceneIdle /\ MaterialIdle /\ UiIdle

\* obj.dynamic_properties.from_node(node) on a new object's empty tree
Parsed(E, r) ==
    /\ dpt' = r.dpt
    /\ exc' = r.exc
    /\ source' = E
    /\ pc' = "parsed"
    /\ UNCHANGED <<objects, node, edits, last, dpt2, removed>>
    /\ UNCHANGED <<trVars, mapVars, boolVars, sceneVars, matVars, uiVars>>
FromNode(E) ==
    /\ pc = "new"
    /\ Parsed(E, from_node(dpt, E, objects))

\* The user ticks "Delete" on one nested tree (XMLPropertyGroup.draw).
MarkDeleted(i) ==
    /\ pc = "parsed"
    /\ edits < MaxEdits
    /\ i \in 1..Len(dpt.dynamic_properties)
    /\ ~dpt.dynamic_properties[i].deleted
    /\ dpt' = [dpt EXCEPT !.dynamic_properties[i].deleted = TRUE]
    /\ edits' = edits + 1
    /\ UNCHANGED <<objects, exc, source, node, pc, last, dpt2, removed>>
    /\ UNCHANGED <<trVars, mapVars, boolVars, sceneVars, matVars, uiVars>>

\* obj.dynamic_properties.to_node(ET.Element("Config"))
ToNode ==
    /\ pc = "parsed"
    /\ node' = to_node(dpt, Elem("Config", <<>>))
    /\ pc' = "exported"
    /\ exc' = "none"
    /\ UNCHANGED <<objects, dpt, source, edits, last, dpt2, removed>>
    /\ UNCHANGED <<trVars, mapVars, boolVars, sceneVars, matVars, uiVars>>

\* from_node of the exported element on a fresh tree
Reparsed(r) ==
    /\ dpt2' = r.dpt
    /\ exc' = r.exc
    /\ pc' = "reparsed"
    /\ UNCHANGED <<objects, dpt, source, node, edits, last, removed>>
    /\ UNCHANGED <<trVars, mapVars, boolVars, sceneVars, matVars, uiVars>>
Reparse ==
    /\ pc = "exported"
    /\ Reparsed(from_node(EmptyDPT, node, objects))

\* Import of a generated document, edits of its nested trees, export.
ParseNext ==
    \/ pc = "new" /\ \E E \in ParseElements : FromNode(E)
    \/ \E i \in 1..Len(dpt.dynamic_properties) : MarkDeleted(i)
    \/ ToNode
    \/ Reparse

SpecParse == DptInit /\ [][ParseNext]_vars

\* ------------------------------------------------------ claims on SpecParse
IsLeaf(e) == Len(e.children) = 0
TextOf(e) == IF e.text = NoneText THEN <<>> ELSE e.text

\* Two leaf texts of one tag that mean the same value.
SemanticallyEqual(tag, a, b) ==
    \/ a = b
    \/ /\ converter_by_tag(tag) = "BoolConverter"
       /\ int_ok(a) /\ int_ok(b)
       /\ (int_value(a) = 0) <=> (int_value(b) = 0)
    \/ /\ converter_by_tag(tag) = "none"
       /\ float_ok(a) /\ float_ok(b)
       /\ float_value(a) = float_value(b)

\* Every leaf of e is a leaf of out with an equal value, and every nested child
\* of e is a nested child of out that contains it in the same way.
RECURSIVE Contains(_, _)
Contains(out, e) ==
    \A i \in 1..Len(e.children) :
        LET c == e.children[i]
        IN  \E j \in 1..Len(out.children) :
                LET o == out.children[j]
                IN  /\ o.tag = c.tag
                    /\ IF IsLeaf(c)
                       THEN IsLeaf(o) /\ SemanticallyEqual(c.tag, TextOf(c), TextOf(o))
                       ELSE ~IsLeaf(o) /\ Contains(o, c)

\* C1: from_node of an element on an empty tree followed by to_node with no
\* edit completes and yields an element holding every leaf tag/value pair and
\* every nested subtree of the element.
C1_Lossless ==
    /\ pc = "parsed" /\ edits = 0 => exc = "none"
    /\ pc \in {"exported", "reparsed"} /\ edits = 0 => Contains(node, source)

IsColorText(t) == Len(t) > 0 /\ t[1] = "_COLOR[" /\ t[Len(t)] = "]"
ColorLeafTags(e) ==
    {e.children[i].tag : i \in {j \in 1..Len(e.children) :
        IsLeaf(e.children[j]) /\ IsColorText(TextOf(e.children[j]))}}

\* C3: a leaf of text _COLOR[a, b, c] becomes a colour property under its tag,
\* and to_node writes that property back as a leaf of the same tag and text.
C3_ColourRoundTrip ==
    \A tag \in ColorLeafTags(source) :
        /\ pc = "parsed" =>
              /\ exc = "none"
              /\ \E i \in 1..Len(dpt.color_properties) : dpt.color_properties[i].tag = tag
        /\ pc = "exported" =>
              \E j \in 1..Len(node.children) :
                  /\ node.children[j].tag = tag
                  /\ IsColorText(TextOf(node.children[j]))

DeletedTrees(d) ==
    {i \in 1..Len(d.dynamic_properties) : d.dynamic_properties[i].deleted}
Undeleted(d) ==
    [d EXCEPT !.dynamic_properties =
        [i \in 1..Len(@) |-> [@[i] EXCEPT !.deleted = FALSE]]]
TypedEntries(d) ==
    Len(d.feedback_sequence_properties) + Len(d.boolean_properties)
      + Len(d.filename_properties) + Len(d.string_properties) + Len(d.int_properties)
      + Len(d.float_properties) + Len(d.color_properties)
      + Len(d.object_pointer_properties)

\* C4: with exactly one nested tree marked deleted, to_node writes what it
\* writes for the unmarked tree with that one subtree taken out: every typed
\* property and every other nested subtree, unchanged and in the stored order.
C4_DeletionOmitsExactlyThatSubtree ==
    pc = "exported" /\ Cardinality(DeletedTrees(dpt)) = 1 =>
        LET k == CHOOSE i \in DeletedTrees(dpt) : TRUE
            full == to_node(Undeleted(dpt), Elem("Config", <<>>))
            typed == (IF dpt.config_type # <<>> THEN 1 ELSE 0) + TypedEntries(dpt)
        IN  /\ Len(full.children) = typed + Len(dpt.dynamic_properties)
            /\ node.children = RemoveAt(full.children, typed + k)
            /\ node.tag = dpt.tag

C4_Witness ==
    /\ pc = "exported"
    /\ Cardinality(DeletedTrees(dpt)) = 1
    /\ Len(dpt.dynamic_properties) = 2
    /\ dpt.dynamic_properties[1].deleted
    /\ Len(dpt.dynamic_properties[1].dynamic_properties) = 1
    /\ TypedEntries(dpt) = 1
    /\ Len(node.children) = 2

\* --------------------------------------------------------- the edit machine
\* The documents a property tree is loaded from before it is edited.
EditElements ==
    { Elem("Config", <<Leaf("ConfigType", <<"a">>), Leaf("AdaptTerrainHeight", <<"2">>),
                       Elem("S", <<Leaf("A", <<"5">>)>>)>>),
      Elem("Config", <<Elem("S", <<Leaf("ConfigType", NoneText)>>)>>),
      Elem("Config", <<Leaf("A", <<"1", ".", "5">>), Leaf("B", <<"a">>),
                       Leaf("FileName", <<"a">>)>>) }

\* The (tag, text) pairs set is called with.
SetPool ==
    { <<"A", <<"5">>>>, <<"A", <<"-", "-", "5">>>>, <<"A", <<"0", ".", "0", "0", "0", "0", "0", "0", "1">>>>,
      <<"A", <<"a">>>>, <<"C", ColorText>>,
      <<"AdaptTerrainHeight", <<"1">>>>, <<"AdaptTerrainHeight", <<>>>>,
      <<"Name", <<"5">>>>, <<"ConfigType", <<"b">>>>,
      <<"SequenceID", <<"7">>>>, <<"BlenderModelID", <<"o">>>>, <<"BlenderModelID", <<"x">>>> }

RemoveTags == {"A", "S", "AdaptTerrainHeight", "BlenderModelID", "Name"}

\* dynamic_properties.set(tag, value_string, replace)
Stored(tag, value_string, replace, r) ==
    /\ dpt' = r.dpt
    /\ exc' = r.exc
    /\ last' = [tag |-> tag, value_string |-> value_string, replace |-> replace,
                converter |-> r.converter, before |-> dpt, after |-> r.dpt]
    /\ pc' = "parsed"
    /\ edits' = edits + 1
    /\ UNCHANGED <<objects, source, node, dpt2, removed>>
    /\ UNCHANGED <<trVars, mapVars, boolVars, sceneVars, matVars, uiVars>>
Set(tag, value_string, replace) ==
    /\ pc \in {"new", "parsed"}
    /\ edits < MaxEdits
    /\ Stored(tag, value_string, replace, set(dpt, tag, value_string, replace, objects))

\* dynamic_properties.remove(tag)
Remove(tag) ==
    /\ pc = "parsed"
    /\ edits < MaxEdits
    /\ dpt' = remove(dpt, tag).dpt
    /\ removed' = [tag |-> tag, found |-> remove(dpt, tag).found,
                   before |-> dpt, after |-> dpt']
    /\ exc' = "none"
    /\ edits' = edits + 1
    /\ UNCHANGED <<objects, source, node, pc, last, dpt2>>
    /\ UNCHANGED <<trVars, mapVars, boolVars, sceneVars, matVars, uiVars>>

Next ==
    \/ pc = "new" /\ \E E \in EditElements : FromNode(E)
    \/ \E p \in SetPool, replace \in BOOLEAN : Set(p[1], p[2], replace)
    \/ \E tag \in RemoveTags : Remove(tag)
    \/ ToNode
    \/ Reparse

Spec == DptInit /\ [][Next]_vars

\* ----------------------------------------------------------- claims on Spec
\* C2: parsing the element to_node produced into a fresh tree gives a tree
\* equal to the one that produced it.
C2_RoundTripIdempotent ==
    pc = "reparsed" => exc = "none" /\ dpt2 = dpt

TagTextPairs(children) == [i \in 1..Len(children) |-> <<children[i].tag, TextOf(children[i])>>]
RECURSIVE Pairs(_, _)
Pairs(props, converter) ==
    IF props = <<>> THEN <<>>
    ELSE <<<<props[1].tag, to_string(converter, props[1].value)>>>> \o Pairs(Tail(props), converter)
RECURSIVE LiveTrees(_)
LiveTrees(trees) ==
    IF trees = <<>> THEN <<>>
    ELSE (IF trees[1].deleted THEN <<>> ELSE <<trees[1]>>) \o LiveTrees(Tail(trees))

\* The typed leaves in the order the format prescribes: sequence references,
\* strings, ints, filenames, floats, object references, bools.
PrescribedTyped(d) ==
    Pairs(d.feedback_sequence_properties, "FeedbackSequenceConverter")
      \o Pairs(d.string_properties, "StringConverter")
      \o Pairs(d.int_properties, "IntConverter")
      \o Pairs(d.filename_properties, "StringConverter")
      \o Pairs(d.float_properties, "FloatConverter")
      \o Pairs(d.object_pointer_properties, "ObjectPointerConverter")
      \o Pairs(d.boolean_properties, "BoolConverter")

\* C5: to_node writes the ConfigType leaf first when config_type is not empty,
\* then the typed properties grouped in the prescribed category order, then
\* the nested trees in their stored order, and no typed property after a
\* nested tree.
C5_SerialisationOrder ==
    pc = "exported" =>
        LET head == IF dpt.config_type # <<>>
                    THEN <<<<"ConfigType", dpt.config_type>>>> ELSE <<>>
            typed == head \o PrescribedTyped(dpt)
            trees == LiveTrees(dpt.dynamic_properties)
            out == node.children
        IN  /\ Len(out) = Len(typed) + Len(trees)
            /\ SubSeq(TagTextPairs(out), 1, Len(typed)) = typed
            /\ \A i \in 1..Len(typed) : IsLeaf(out[i])
            /\ \A i \in 1..Len(trees) : out[Len(typed) + i].tag = trees[i].tag

C5_Witness ==
    /\ pc = "exported"
    /\ dpt.config_type # <<>>
    /\ Len(dpt.boolean_properties) = 1
    /\ Len(dpt.float_properties) = 1
    /\ Len(dpt.dynamic_properties) = 1
    /\ edits = 1
    /\ Len(node.children) = 4
    /\ node.children[1].tag = "ConfigType"
    /\ node.children[3].tag = "AdaptTerrainHeight"
    /\ node.children[4].tag = "S"

IsColorTriple(t) ==
    /\ IsColorText(t)
    /\ count_token(t, ",") = 2

\* The converter the documented resolution order gives.
DocumentedConverter(tag, text) ==
    IF converter_by_tag(tag) # "none" THEN converter_by_tag(tag)
    ELSE IF IsColorTriple(text) THEN "ColorConverter"
    ELSE IF int_ok(text) THEN "IntConverter"
    ELSE IF float_ok(text) THEN "FloatConverter"
    ELSE "StringConverter"

\* C6: get_converter_for follows the documented resolution order, and a
\* converter chosen from the text can convert that text.
C6_TypeResolution ==
    last.converter # "none" =>
        /\ last.converter = DocumentedConverter(last.tag, last.value_string)
        /\ converter_by_tag(last.tag) = "none" =>
              from_string(last.converter, last.value_string, objects).exc = "none"

ZeroValue(converter) ==
    CASE converter = "BoolConverter" -> FALSE
      [] converter \in {"IntConverter", "FloatConverter"} -> 0
      [] OTHER -> <<>>

\* C7: set never raises; text that cannot be converted to the committed type
\* is stored as the zero value of that type under its tag.
C7_LenientCoercion ==
    last.converter # "none" /\ pc = "parsed" =>
        /\ exc = "none"
        /\ from_string(last.converter, last.value_string, objects).exc # "none" =>
              \E i \in 1..Len(dpt[properties_by_converter(last.converter)]) :
                  dpt[properties_by_converter(last.converter)][i] =
                      [tag |-> last.tag, value |-> ZeroValue(last.converter)]

\* The categories of a property tree.
AllCategories ==
    {"feedback_sequence_properties", "boolean_properties", "filename_properties",
     "string_properties", "int_properties", "float_properties", "color_properties",
     "object_pointer_properties", "dynamic_properties"}
HoldingCategories(d, tag) == {c \in AllCategories : FirstWithTag(d[c], tag) # 0}

\* C13: remove(tag) returns true and deletes exactly one entry, the first with
\* that tag in the category that holds it, whichever of the nine categories
\* that is; with no such entry it returns false and changes nothing.
C13_RemoveFirstMatch ==
    removed.tag # "" =>
        IF HoldingCategories(removed.before, removed.tag) = {}
        THEN ~removed.found /\ removed.after = removed.before
        ELSE /\ removed.found
             /\ \E c \in HoldingCategories(removed.before, removed.tag) :
                   removed.after =
                       [removed.before EXCEPT
                           ![c] = RemoveAt(@, FirstWithTag(removed.before[c], removed.tag))]

RECURSIVE CountTag(_, _)
CountTag(entries, tag) ==
    IF entries = <<>> THEN 0
    ELSE (IF entries[1].tag = tag THEN 1 ELSE 0) + CountTag(Tail(entries), tag)
RECURSIVE TotalOf(_)
TotalOf(counts) == IF counts = <<>> THEN 0 ELSE counts[1] + TotalOf(Tail(counts))
CategoryOrder ==
    <<"feedback_sequence_properties", "boolean_properties", "filename_properties",
      "string_properties", "int_properties", "float_properties", "color_properties",
      "object_pointer_properties", "dynamic_properties">>
EntriesWithTag(d, tag) ==
    TotalOf([i \in 1..Len(CategoryOrder) |-> CountTag(d[CategoryOrder[i]], tag)])

\* C14: for a tag other than ConfigType, set(tag, v, replace = false) appends
\* one entry with that tag to one category and leaves every other entry as it
\* was; to_node then writes one element for every entry with the tag, and
\* get_string(tag) is the value of the first string or file name entry with
\* the tag.
C14_SetAppends ==
    last.tag \notin {"", "ConfigType"} /\ ~last.replace =>
        /\ \E c \in AllCategories :
              /\ Len(last.after[c]) = Len(last.before[c]) + 1
              /\ SubSeq(last.after[c], 1, Len(last.before[c])) = last.before[c]
              /\ last.after[c][Len(last.after[c])].tag = last.tag
              /\ last.after = [last.before EXCEPT ![c] = last.after[c]]
        /\ CountTag(to_node(last.after, Elem("Config", <<>>)).children, last.tag)
              = EntriesWithTag(last.before, last.tag) + 1
        /\ \A c \in {"string_properties", "filename_properties"} :
              /\ FirstWithTag(last.after[c], last.tag) # 0
              /\ EntriesWithTag(last.after, last.tag) = CountTag(last.after[c], last.tag)
              => get_string(last.after, last.tag, NoneText)
                   = last.after[c][FirstWithTag(last.after[c], last.tag)].value

\* The entry set(tag, v, replace = true) has to leave: the conversion of v.
ConversionOf(call) == from_string(call.converter, call.value_string, objects)
HoldsConversion(d, call) ==
    \E c \in AllCategories :
        /\ FirstWithTag(d[c], call.tag) # 0
        /\ d[c][FirstWithTag(d[c], call.tag)].value = ConversionOf(call).value

\* C29: if a property tree holds at most one entry for a tag other than
\* ConfigType, then after set(tag, v, replace = true) with a text v that its
\* converter accepts it holds exactly one entry for the tag, whose value is
\* the conversion of v.
C29_ReplaceKeepsSingleValued ==
    /\ last.tag \notin {"", "ConfigType"}
    /\ last.replace
    /\ ConversionOf(last).exc = "none"
    /\ EntriesWithTag(last.before, last.tag) <= 1
    => /\ EntriesWithTag(last.after, last.tag) = 1
       /\ HoldsConversion(last.after, last)

\* ------------------------------------------------- coordinate conversions
\* Most conversions applied to one Transform.
MaxConversions == 3

\* The transforms a run starts from.
TransformSamples ==
    { [Transform_init(loc, rot, sca, anno_coords) EXCEPT !.rotation_euler = eul] :
        loc \in {<<1, 2, 3>>, <<0, 0, 0>>, <<0 - 1, 0, 2>>},
        rot \in {<<1, 0, 0, 0>>, <<1, 2, 3, 4>>},
        eul \in {<<0, 0, 0>>, <<1, 2, 3>>},
        sca \in {<<1, 1, 1>>, <<1, 2, 3>>},
        anno_coords \in BOOLEAN }

TransformInit ==
    /\ transform \in TransformSamples
    /\ original = transform
    /\ mirror_models \in BOOLEAN
    /\ module \in {"transform", "anno_objects"}
    /\ conversions = <<>>
    /\ converted = <<>>
    /\ objects = {<<"o">>} /\ dpt = EmptyDPT /\ exc = "none" /\ source = NoNode
    /\ node = NoNode /\ pc = "new" /\ edits = 0 /\ last = NoCall /\ dpt2 = EmptyDPT
    /\ removed = NoRemoval
    /\ MapperIdle /\ WriterIdle /\ SceneIdle /\ MaterialIdle /\ UiIdle

\* transform.convert_to_blender_coords()
ConvertToBlenderCoords ==
    /\ Len(conversions) < MaxConversions
    /\ transform' = IF module = "transform"
                    THEN convert_to_blender_coords(transform, mirror_models)
                    ELSE anno_objects_convert_to_blender_coords(transform)
    /\ conversions' = Append(conversions, "blender")
    /\ converted' = Append(converted, transform')
    /\ UNCHANGED <<original, mirror_models, module, dptVars, mapVars, boolVars, sceneVars, matVars, uiVars>>

\* transform.convert_to_anno_coords()
ConvertToAnnoCoords ==
    /\ Len(conversions) < MaxConversions
    /\ transform' = IF module = "transform"
                    THEN convert_to_anno_coords(transform, mirror_models)
                    ELSE anno_objects_convert_to_anno_coords(transform)
    /\ conversions' = Append(conversions, "anno")
    /\ converted' = Append(converted, transform')
    /\ UNCHANGED <<original, mirror_models, module, dptVars, mapVars, boolVars, sceneVars, matVars, uiVars>>

TransformNext ==
    \/ ConvertToBlenderCoords
    \/ ConvertToAnnoCoords

SpecTransform == TransformInit /\ [][TransformNext]_vars

SameValues(a, b) ==
    /\ a.location = b.location
    /\ a.rotation = b.rotation
    /\ a.rotation_euler = b.rotation_euler
    /\ a.scale = b.scale

\* C10: under either mirror setting, an engine-space transform converted to
\* Blender coordinates and then to Anno coordinates, and a host-space
\* transform converted to Anno coordinates and then to Blender coordinates,
\* has the location, quaternion, Euler rotation and scale it started with.
C10_ConversionsMutuallyInverse ==
    /\ original.anno_coords /\ conversions = <<"blender", "anno">> =>
          SameValues(transform, original)
    /\ ~original.anno_coords /\ conversions = <<"anno", "blender">> =>
          SameValues(transform, original)

\* C11: the anno_coords tag names the space the values are in after every
\* conversion, so a conversion that follows one in the same direction leaves
\* the values as they are, and converting to Blender, to Anno and to Blender
\* coordinates gives the values the first conversion gave.
C11_SpaceTagGuardsConversions ==
    /\ \A i \in 1..Len(conversions) :
          converted[i].anno_coords = (conversions[i] = "anno")
    /\ \A i \in 2..Len(conversions) :
          conversions[i] = conversions[i - 1] => SameValues(converted[i], converted[i - 1])
    /\ conversions = <<"blender", "anno", "blender">> =>
          SameValues(converted[3], converted[1])

\* ------------------------------------------------------------- the mapper
\* The children the imported Prop elements are made of.
MapperPool ==
    { Leaf("Position.x", <<"2">>),
      Leaf("Position.x", NoneText),
      Leaf("Position.x", <<"a">>),
      Leaf("Rotation.w", <<"a">>),
      Leaf("Scale.y", <<"1", ".", "5">>),
      Leaf("Name", <<"n">>),
      Leaf("ConfigType", <<"P">>),
      Leaf("FileName", <<"d", "/", "f", ".", "p">>),
      Leaf("B", <<"a">>),
      Elem("S", <<Leaf("A", <<"5">>)>>) }

MapperElements == {Elem("Config", cs) : cs \in ChildSeqs(MapperPool, MaxChildren)}

MapperInit ==
    /\ obj = NewObject
    /\ defaults = InitialDefaults
    /\ objects = {<<"o">>} /\ dpt = EmptyDPT /\ exc = "none" /\ source = NoNode
    /\ node = NoNode /\ pc = "new" /\ edits = 0 /\ last = NoCall /\ dpt2 = EmptyDPT
    /\ removed = NoRemoval
    /\ TransformIdle /\ WriterIdle /\ SceneIdle /\ MaterialIdle /\ UiIdle

\* Prop.xml_to_blender(node)
Imported(E, r) ==
    /\ obj' = r.obj
    /\ node' = r.node
    /\ exc' = r.exc
    /\ defaults' = r.defaults
    /\ objects' = objects \cup {r.obj.name}
    /\ source' = E
    /\ pc' = "imported"
    /\ UNCHANGED <<dpt, edits, last, dpt2, removed, trVars, boolVars, sceneVars, matVars, uiVars>>
XmlToBlender(E) ==
    /\ pc = "new"
    /\ Imported(E, xml_to_blender(Prop, E, <<>>, defaults, objects))

MapperNext ==
    pc = "new" /\ \E E \in MapperElements : XmlToBlender(E)

SpecMapper == MapperInit /\ [][MapperNext]_vars

\* The transform leaves of a class, and those among them a number cannot be
\* read from: the text is empty or not numeric.
TransformTags(cls) == {cls.transform_paths[c] : c \in DOMAIN cls.transform_paths}
BadComponents(cls, e) ==
    {c \in DOMAIN cls.transform_paths :
        LET i == find(e, cls.transform_paths[c])
        IN  i # 0 /\ ~float_ok(TextOf(e.children[i]))}
\* The element without the leaves the mapper consumes.
RECURSIVE GenericChildren(_, _)
GenericChildren(cls, children) ==
    IF children = <<>> THEN <<>>
    ELSE (IF children[1].tag \in TransformTags(cls) \cup {"Name"}
          THEN <<>> ELSE <<children[1]>>) \o GenericChildren(cls, Tail(children))

\* C8: xml_to_blender on an element whose transform leaves hold empty or
\* non-numeric text completes without an exception, gives each such component
\* its default, and parses the element's generic properties.
C8_MapperSurvivesBadTransformText ==
    pc = "imported" /\ BadComponents(Prop, source) # {} =>
        /\ exc = "none"
        /\ LET t == anno_objects_convert_to_anno_coords(
                        Transform_from_blender_object(obj, FALSE, FALSE))
           IN  \A c \in BadComponents(Prop, source) :
                   get_component_value(t, c) = float_value(from_node_default(c))
        /\ obj.dynamic_properties =
              from_node(EmptyDPT, Elem(source.tag, GenericChildren(Prop, source.children)),
                        objects).dpt

\* ------------------------------------------------------ boolean serialisers
\* The elements the serialised property trees are parsed from.
BoolLeafPool ==
    { Leaf("AdaptTerrainHeight", <<"0">>), Leaf("AdaptTerrainHeight", <<"1">>),
      Leaf("HeightAdaptationMode", <<"2">>), Leaf("GLOW_ENABLED", <<"0">>),
      Leaf("A", <<"5">>) }
BoolElements == {Elem("Config", cs) : cs \in ChildSeqs(BoolLeafPool, MaxChildren)}

\* The Blender materials: the enabled switch of every texture node, and a
\* property tree that holds or does not hold a flag leaf from the import.
BlenderMaterials ==
    { [name |-> <<"m">>, enabled |-> enabled, dynamic_properties |-> d] :
        enabled \in [texture_keys -> BOOLEAN],
        d \in { EmptyDPT,
                from_node(EmptyDPT, Elem("Material", <<Leaf("DIFFUSE_ENABLED", <<"1">>)>>),
                          {}).dpt } }

\* The feedback objects: every BoolProperty either way, a list of GUIDs and a
\* list of sequences that are empty or hold one item.
FeedbackObjects ==
    { [feedback_config_item |-> FeedbackConfigItem(bools),
       feedback_guid_list |-> guids, feedback_sequence_list |-> seqs,
       dynamic_properties |-> EmptyDPT] :
        bools \in [FeedbackConfigItem_bools -> BOOLEAN],
        guids \in { <<>>, <<[guid_type |-> "Custom", guid |-> <<>>, custom_guid |-> <<"7">>]>> },
        seqs \in { <<>>, <<[animation_type |-> "Walk", sequence |-> <<"w">>,
                            speed_factor_f |-> One, target_empty |-> <<>>]>> } }

WriterInit ==
    /\ writer = "none"
    /\ subject = NoSubject
    /\ objects = {<<"o">>} /\ dpt = EmptyDPT /\ exc = "none" /\ source = NoNode
    /\ node = NoNode /\ pc = "new" /\ edits = 0 /\ last = NoCall /\ dpt2 = EmptyDPT
    /\ removed = NoRemoval
    /\ TransformIdle /\ MapperIdle /\ SceneIdle /\ MaterialIdle /\ UiIdle

\* obj.dynamic_properties.to_node(ET.Element("AnnoObject")) of a parsed tree
PropertiesWritten(d) ==
    /\ subject' = [kind |-> "dpt", dpt |-> d]
    /\ node' = to_node(d, Elem("AnnoObject", <<>>))
    /\ writer' = "XMLPropertyGroup.to_node"
    /\ pc' = "written"
    /\ UNCHANGED <<objects, dpt, exc, source, edits, last, dpt2, removed, trVars, mapVars, sceneVars, matVars, uiVars>>
WriteProperties(E) ==
    /\ pc = "new"
    /\ PropertiesWritten(from_node(EmptyDPT, E, objects).dpt)

\* Material.from_blender_material(blender_material).to_xml_node(parent)
MaterialWritten(material) ==
    /\ subject' = [kind |-> "material", material |-> material]
    /\ node' = to_xml_node(material)
    /\ writer' = "Material.to_xml_node"
    /\ pc' = "written"
    /\ UNCHANGED <<objects, dpt, exc, source, edits, last, dpt2, removed, trVars, mapVars, sceneVars, matVars, uiVars>>
WriteMaterial(blender_material) ==
    /\ pc = "new"
    /\ MaterialWritten(from_blender_material(blender_material))

\* FeedbackConfig.property_node_to_node(obj.dynamic_properties.to_node(node), obj)
WriteFeedbackConfig(object) ==
    /\ pc = "new"
    /\ subject' = [kind |-> "feedback", object |-> object]
    /\ node' = property_node_to_node(
                   to_node(object.dynamic_properties, Elem("AnnoObject", <<>>)), object)
    /\ writer' = "FeedbackConfig.property_node_to_node"
    /\ pc' = "written"
    /\ UNCHANGED <<objects, dpt, exc, source, edits, last, dpt2, removed, trVars, mapVars, sceneVars, matVars, uiVars>>

WriterNext ==
    \/ pc = "new" /\ \E E \in BoolElements : WriteProperties(E)
    \/ pc = "new" /\ \E blender_material \in BlenderMaterials : WriteMaterial(blender_material)
    \/ pc = "new" /\ \E object \in FeedbackObjects : WriteFeedbackConfig(object)

SpecWriter == WriterInit /\ [][WriterNext]_vars

\* The texts of the leaves of a tag in the written element.
LeafTexts(tag) ==
    {node.children[i].text : i \in {j \in 1..Len(node.children) : node.children[j].tag = tag}}
BoolText(value) == IF value THEN <<"1">> ELSE <<"0">>
PythonBoolText(value) == IF value THEN <<"True">> ELSE <<"False">>

\* C9 as stated: every boolean leaf a serialiser writes is "0" or "1".
C9_EveryBooleanLeafIsDigit ==
    /\ writer = "XMLPropertyGroup.to_node" =>
          \A i \in 1..Len(subject.dpt.boolean_properties) :
              LeafTexts(subject.dpt.boolean_properties[i].tag) \subseteq {<<"0">>, <<"1">>}
    /\ writer = "Material.to_xml_node" =>
          \A i \in 1..Len(texture_definitions) :
              LeafTexts(texture_definitions[i][2]) \subseteq {<<"0">>, <<"1">>}
    /\ writer = "FeedbackConfig.property_node_to_node" =>
          \A prop \in FeedbackConfigItem_bools :
              LeafTexts(prop) \subseteq {<<"0">>, <<"1">>}

\* C9: the bool properties of a property tree and the texture-enabled flags of
\* a material are written as "0" or "1", the digit of the stored value; the
\* BoolProperty fields of a FeedbackConfig are written as "True" or "False".
C9_BooleanOutputFormat ==
    /\ writer = "XMLPropertyGroup.to_node" =>
          \A i \in 1..Len(subject.dpt.boolean_properties) :
              LET p == subject.dpt.boolean_properties[i]
              IN  /\ BoolText(p.value) \in LeafTexts(p.tag)
                  /\ LeafTexts(p.tag) \subseteq {<<"0">>, <<"1">>}
    /\ writer = "Material.to_xml_node" =>
          \A i \in 1..Len(texture_definitions) :
              LeafTexts(texture_definitions[i][2]) =
                  {BoolText(subject.material.texture_enabled[texture_definitions[i][1]])}
    /\ writer = "FeedbackConfig.property_node_to_node" =>
          \A prop \in FeedbackConfigItem_bools :
              LeafTexts(prop) =
                  {PythonBoolText(subject.object.feedback_config_item[prop].value)}

C9_Witness ==
    /\ writer = "FeedbackConfig.property_node_to_node"
    /\ subject.object.feedback_config_item["IgnoreDistanceScale"].value
    /\ ~subject.object.feedback_config_item["IsAlwaysVisibleActor"].value
    /\ \E i \in 1..Len(node.children) :
          node.children[i] = Leaf("IgnoreDistanceScale", <<"True">>)
    /\ \E i \in 1..Len(node.children) :
          node.children[i] = Leaf("IsAlwaysVisibleActor", <<"False">>)

\* ----------------------------------------------------- import and export
\* Most elements in one container of a generated .cfg document.
MaxSiblings == 2

OrientationTransform(leaves) ==
    Elem("Transformer",
         <<Elem("Config", <<Leaf("ConfigType", <<"ORIENTATION_TRANSFORM">>)>> \o leaves)>>)

\* The elements the containers of the generated documents are made of: with
\* and without Name, FileName and transform, naming a file that exists
\* (m.rdm converted to m.glb, s.cfg, p.prp) or one that does not.
ModelPool ==
    { Elem("Config", <<Leaf("ConfigType", <<"M">>), Leaf("Name", <<"n">>),
                       Leaf("FileName", <<"m", ".", "r", "d", "m">>),
                       OrientationTransform(<<Leaf("Position.x", <<"2">>),
                                              Leaf("Scale", <<"2">>)>>)>>),
      Elem("Config", <<Leaf("ConfigType", <<"M">>),
                       Leaf("FileName", <<"d", "/", "x", ".", "r", "d", "m">>),
                       Leaf("B", <<"a">>)>>),
      Elem("Config", <<Leaf("ConfigType", <<"A", "_", "B">>), Leaf("Name", <<"n">>),
                       OrientationTransform(<<Leaf("Position.z", <<"1">>)>>)>>),
      Elem("Config", <<Leaf("Name", <<"n">>)>>) }

FilePool ==
    { Elem("Config", <<Leaf("ConfigType", <<"F">>),
                       Leaf("FileName", <<"s", ".", "c", "f", "g">>),
                       OrientationTransform(<<Leaf("Position.x", <<"2">>)>>)>>),
      Elem("Config", <<Leaf("ConfigType", <<"F">>), Leaf("Name", <<"n">>),
                       Leaf("FileName", <<"x", ".", "c", "f", "g">>),
                       OrientationTransform(<<Leaf("Position.y", <<"1">>)>>),
                       Leaf("B", <<"a">>)>>),
      Elem("Config", <<Leaf("ConfigType", <<"F">>), Leaf("AdaptTerrainHeight", <<"1">>)>>) }

PropPool ==
    { Elem("Config", <<Leaf("ConfigType", <<"P">>), Leaf("Name", <<"p">>),
                       Leaf("FileName", <<"p", ".", "p", "r", "p">>),
                       Leaf("Position.x", <<"2">>)>>),
      Elem("Config", <<Leaf("ConfigType", <<"P">>),
                       Leaf("FileName", <<"q", ".", "p", "r", "p">>),
                       Leaf("Scale.y", <<"1", ".", "5">>), Leaf("B", <<"a">>)>>) }

PropcontainerPool ==
    { Elem("Config", <<Leaf("ConfigType", <<"C">>), Leaf("Name", <<"c">>),
                       OrientationTransform(<<Leaf("Scale.x", <<"1">>),
                                              Leaf("Scale.y", <<"2">>)>>),
                       Elem("Props", props)>>) : props \in ChildSeqs(PropPool, MaxSiblings) }

\* The documents: one container, two containers of different kinds with one
\* element each, or two Models containers, with or without a generic leaf.
SceneContainers ==
    {<<Elem("Models", cs)>> : cs \in ChildSeqs(ModelPool, MaxSiblings)}
        \cup {<<Elem("Files", cs)>> : cs \in ChildSeqs(FilePool, MaxSiblings)}
        \cup {<<Elem("PropContainers", <<c>>)>> : c \in PropcontainerPool}
        \cup {<<Elem("Models", <<m>>), Elem("Files", <<f>>)>> : m \in ModelPool, f \in FilePool}
        \cup {<<Elem("Files", <<f>>), Elem("PropContainers", <<c>>)>> :
                 f \in FilePool, c \in PropcontainerPool}
        \cup {<<Elem("Models", <<m>>), Elem("Models", <<n>>)>> : m \in ModelPool, n \in ModelPool}
SceneElements ==
    {Elem("Config", cs \o g) : cs \in SceneContainers, g \in {<<>>, <<Leaf("B", <<"a">>)>>}}

\* The name the imported file is given: "MAIN_FILE_" + path.name
ImportName == <<"MAIN", "_", "FILE", "_", "r", ".", "c", "f", "g">>

\* The scale a user gives an object in the viewport.
EditedScale == <<One, 2 * One, 3 * One>>

SceneInit ==
    /\ scene = <<>>
    /\ main_obj = 0
    /\ obj = NewObject
    /\ defaults = InitialDefaults
    /\ objects = {<<"o">>} /\ dpt = EmptyDPT /\ exc = "none" /\ source = NoNode
    /\ node = NoNode /\ pc = "new" /\ edits = 0 /\ last = NoCall /\ dpt2 = EmptyDPT
    /\ removed = NoRemoval
    /\ TransformIdle /\ WriterIdle /\ MaterialIdle /\ UiIdle

\* ImportAnnoCfg.execute for one .cfg file with root E having ended as r
CfgImported(E, r) ==
    /\ scene' = r.objects
    /\ main_obj' = r.obj
    /\ defaults' = r.defaults
    /\ exc' = r.exc
    /\ source' = E
    /\ pc' = "imported"
    /\ UNCHANGED <<objects, dpt, node, edits, last, dpt2, removed, obj>>
    /\ UNCHANGED <<trVars, boolVars, matVars, uiVars>>
ImportCfg(E) ==
    /\ pc = "new"
    /\ CfgImported(E, import_cfg_file(E, ImportName,
                                      [objects |-> scene, defaults |-> defaults,
                                       exc |-> "none", obj |-> 0]))

\* The user scales one object of the imported file.
ScaleObject(k) ==
    /\ pc = "imported"
    /\ exc = "none"
    /\ edits < MaxEdits
    /\ scene[k].anno_object_class # "NoAnnoObject"
    /\ scene[k].scale # EditedScale
    /\ scene' = [scene EXCEPT ![k].scale = EditedScale]
    /\ edits' = edits + 1
    /\ UNCHANGED <<objects, dpt, exc, source, node, pc, last, dpt2, removed, main_obj>>
    /\ UNCHANGED <<trVars, mapVars, boolVars, matVars, uiVars>>

\* ExportAnnoCfg.execute with the imported file object selected
ExportCfg ==
    /\ pc = "imported"
    /\ exc = "none"
    /\ node' = blender_to_xml(MainFile, main_obj, scene)
    /\ pc' = "exported"
    /\ UNCHANGED <<objects, dpt, exc, source, edits, last, dpt2, removed>>
    /\ UNCHANGED <<trVars, mapVars, boolVars, sceneVars, matVars, uiVars>>

SceneNext ==
    \/ pc = "new" /\ \E E \in SceneElements : ImportCfg(E)
    \/ \E k \in 1..Len(scene) : ScaleObject(k)
    \/ ExportCfg

SpecScene == SceneInit /\ [][SceneNext]_vars

\* ------------------------------------------------------ claims on SpecScene
\* The objects of a class below object k, in the order of bpy.data.objects.
RECURSIVE ObjectsOf(_, _, _, _)
ObjectsOf(objs, k, classname, i) ==
    IF i > Len(objs) THEN <<>>
    ELSE (IF objs[i].parent = k /\ objs[i].anno_object_class = classname
          THEN <<i>> ELSE <<>>) \o ObjectsOf(objs, k, classname, i + 1)

\* The elements in the first container of that name in an element.
ElementsIn(e, container) ==
    IF find(e, container) = 0 THEN <<>> ELSE e.children[find(e, container)].children

\* The elements serialise wrote for n child objects into that container of the
\* exported element: its last n (elements kept by the property tree precede).
WrittenIn(e, container, n) ==
    SubSeq(ElementsIn(e, container), Len(ElementsIn(e, container)) - n + 1,
           Len(ElementsIn(e, container)))

\* The text of the leaf a class keeps a transform component in, <<>> if the
\* element has no such leaf.
WrittenComponent(cls, e, component) ==
    get_text(transform_node(e, find_base_path(cls, e)), cls.transform_paths[component], <<>>)

\* The value Transform.from_node reads for scale.x: the leaf's, or 1.0.
ReadScaleX(cls, e) ==
    IF float_ok(WrittenComponent(cls, e, "scale.x"))
    THEN float_value(WrittenComponent(cls, e, "scale.x")) ELSE One

EqualScaleKinds == << <<"Models", "Model">>, <<"Files", "SubFile">>,
                      <<"PropContainers", "Propcontainer">> >>

\* C12: for every node kind with enforce_equal_scale, the object built by
\* parse has all three scale axes equal to the element's X scale, and the
\* scale leaves written by serialise all hold the object's X scale, also when
\* the element or the object has differing axis values; neither fails.
C12_UniformScaleEnforced ==
    \A t \in 1..Len(EqualScaleKinds) :
        /\ pc = "imported" /\ edits = 0 =>
              /\ exc = "none"
              /\ \A j \in 1..Len(ObjectsOf(scene, main_obj, EqualScaleKinds[t][2], 1)) :
                    scene[ObjectsOf(scene, main_obj, EqualScaleKinds[t][2], 1)[j]].scale
                        = [a \in 1..3 |->
                              ReadScaleX(str_to_class(EqualScaleKinds[t][2]),
                                         ElementsIn(source, EqualScaleKinds[t][1])[j])]
        /\ pc = "exported" =>
              \A j \in 1..Len(ObjectsOf(scene, main_obj, EqualScaleKinds[t][2], 1)) :
                  \A c \in {"scale.x", "scale.y", "scale.z"} :
                      WrittenComponent(
                          str_to_class(EqualScaleKinds[t][2]),
                          WrittenIn(node, EqualScaleKinds[t][1],
                                    Len(ObjectsOf(scene, main_obj, EqualScaleKinds[t][2], 1)))[j],
                          c)
                          = format_float(
                                scene[ObjectsOf(scene, main_obj, EqualScaleKinds[t][2], 1)[j]]
                                    .scale[1])

\* The kinds with a name that MainFile and Propcontainer declare containers for.
NamedKinds == << <<"Models", "Model">>, <<"Files", "SubFile">>,
                 <<"PropContainers", "Propcontainer">> >>
PropKinds == << <<"Props", "Prop">> >>

\* The child objects os of a class were named after their elements es, and
\* their property trees hold no Name.
NamedOnParse(os, cls, es) ==
    \A j \in DOMAIN os \cap DOMAIN es :
        /\ scene[os[j]].name = blender_name_from_node(cls, es[j])
        /\ EntriesWithTag(scene[os[j]].dynamic_properties, "Name") = 0
\* The elements xs written for the objects parsed from es carry their Name.
NameWrittenBack(es, xs) ==
    \A j \in DOMAIN es \cap DOMAIN xs :
        find(es[j], "Name") # 0 =>
            /\ find(xs[j], "Name") # 0
            /\ TextOf(xs[j].children[find(xs[j], "Name")])
                   = TextOf(es[j].children[find(es[j], "Name")])
\* Both, for the children of object k parsed from element e and written to x.
NamingBelow(k, e, x, kinds) ==
    \A t \in 1..Len(kinds) :
        /\ pc = "imported" =>
              NamedOnParse(ObjectsOf(scene, k, kinds[t][2], 1), str_to_class(kinds[t][2]),
                           ElementsIn(e, kinds[t][1]))
        /\ pc = "exported" =>
              NameWrittenBack(ElementsIn(e, kinds[t][1]),
                              WrittenIn(x, kinds[t][1],
                                        Len(ObjectsOf(scene, k, kinds[t][2], 1))))

\* C15: parse names the object of a kind with a name ConfigType + "_" + Name,
\* with the stem of FileName for a missing Name, and keeps no Name in the
\* property tree; serialising the unedited objects writes a Name leaf equal
\* to the Name of the element each was parsed from.
C15_NamingRoundTrip ==
    edits = 0 /\ pc \in {"imported", "exported"} =>
        /\ NamingBelow(main_obj, source, node, NamedKinds)
        /\ \A j \in 1..Len(ObjectsOf(scene, main_obj, "Propcontainer", 1)) :
              NamingBelow(ObjectsOf(scene, main_obj, "Propcontainer", 1)[j],
                          ElementsIn(source, "PropContainers")[j],
                          IF pc = "exported"
                          THEN WrittenIn(node, "PropContainers",
                                         Len(ObjectsOf(scene, main_obj, "Propcontainer", 1)))[j]
                          ELSE NoNode,
                          PropKinds)

\* The number of elements in all the containers of that name among children.
RECURSIVE ChildElements(_, _)
ChildElements(children, container) ==
    IF children = <<>> THEN 0
    ELSE (IF children[1].tag = container THEN Len(children[1].children) ELSE 0)
           + ChildElements(Tail(children), container)

\* For the children of object k parsed from element e and written to x: one
\* object of the declared kind for every element of a declared container and
\* no container left in the property tree; after the export, as many elements
\* in the container as the document had.
ChildrenBelow(k, e, x, kinds) ==
    \A t \in 1..Len(kinds) :
        /\ pc = "imported" =>
              /\ Len(ObjectsOf(scene, k, kinds[t][2], 1))
                     = ChildElements(e.children, kinds[t][1])
              /\ EntriesWithTag(scene[k].dynamic_properties, kinds[t][1]) = 0
        /\ pc = "exported" =>
              /\ Len(ElementsIn(x, kinds[t][1])) >= Len(ObjectsOf(scene, k, kinds[t][2], 1))
              /\ ChildElements(x.children, kinds[t][1])
                     = ChildElements(e.children, kinds[t][1])

\* C16: parse makes one child object of the declared kind for every element
\* of a declared container and keeps no such container in the property tree;
\* serialise writes every such child once into the container of its kind, so
\* that import and export without an edit give every container as many
\* elements as it had.
C16_ChildrenAndContainers ==
    edits = 0 /\ pc \in {"imported", "exported"} =>
        /\ ChildrenBelow(main_obj, source, node, NamedKinds)
        /\ \A j \in 1..Len(ObjectsOf(scene, main_obj, "Propcontainer", 1)) :
              ChildrenBelow(ObjectsOf(scene, main_obj, "Propcontainer", 1)[j],
                            ElementsIn(source, "PropContainers")[j],
                            IF pc = "exported"
                            THEN WrittenIn(node, "PropContainers",
                                           Len(ObjectsOf(scene, main_obj, "Propcontainer", 1)))[j]
                            ELSE NoNode,
                            PropKinds)

\* The element names no file the import can load.
NoFile(cls, e) ==
    CASE cls.name = "SubFile" -> get_text(e, "FileName", <<"None">>) \notin DOMAIN Files
      [] cls.name = "Prop" ->
            \/ get_prop_data(get_text(e, "FileName", <<>>)) = <<>>
            \/ Path_with_suffix(get_prop_data(get_text(e, "FileName", <<>>)),
                                <<".", "g", "l", "b">>) \notin DOMAIN Files
      [] OTHER ->
            \/ get_text(e, "FileName", <<>>) = <<>>
            \/ Path_with_suffix(get_text(e, "FileName", <<>>), <<".", "g", "l", "b">>)
                   \notin DOMAIN Files

\* Object k is an empty; the empty of a SubFile has one more empty below it
\* in place of the file.
Placeholder(k, cls) ==
    /\ scene[k].data = "none"
    /\ cls.name = "SubFile" =>
          /\ Len(children_by_object(scene, k, 1)) = 1
          /\ scene[children_by_object(scene, k, 1)[1]].anno_object_class = "NoAnnoObject"
          /\ scene[children_by_object(scene, k, 1)[1]].data = "none"

\* The number in a transform leaf of e, 0 without the leaf.
ReadComponent(cls, e, component) ==
    IF float_ok(WrittenComponent(cls, e, component))
    THEN float_value(WrittenComponent(cls, e, component)) ELSE 0

\* Object k stands where e says and holds the generic leaves of e.
PlacedAndCaptured(k, cls, e) ==
    /\ scene[k].location = <<0 - ReadComponent(cls, e, "location.x"),
                             0 - ReadComponent(cls, e, "location.z"),
                             ReadComponent(cls, e, "location.y")>>
    /\ scene[k].dynamic_properties.config_type = get_text(e, "ConfigType", <<>>)
    /\ \A tag \in {"B", "AdaptTerrainHeight", "FileName"} :
          EntriesWithTag(scene[k].dynamic_properties, tag) = CountTag(e.children, tag)

\* For the children of object k parsed from element e.
MissingFilesBelow(k, e, kinds) ==
    \A t \in 1..Len(kinds) :
        /\ Len(ObjectsOf(scene, k, kinds[t][2], 1)) = Len(ElementsIn(e, kinds[t][1]))
        /\ \A j \in 1..Len(ElementsIn(e, kinds[t][1])) :
              NoFile(str_to_class(kinds[t][2]), ElementsIn(e, kinds[t][1])[j]) =>
                  /\ Placeholder(ObjectsOf(scene, k, kinds[t][2], 1)[j],
                                 str_to_class(kinds[t][2]))
                  /\ PlacedAndCaptured(ObjectsOf(scene, k, kinds[t][2], 1)[j],
                                       str_to_class(kinds[t][2]),
                                       ElementsIn(e, kinds[t][1])[j])

MaxCalls == 3
MaxImports == 2

\* The material elements of the imported documents.
MaterialNodes ==
    { Elem("Config", <<Leaf("Name", <<"a">>), Leaf("cModelDiffTex", <<"t", ".", "p", "s", "d">>),
                       Leaf("DIFFUSE_ENABLED", <<"1">>)>>),
      Elem("Config", <<Leaf("Name", <<"a">>), Leaf("cModelDiffTex", <<"t", ".", "p", "s", "d">>),
                       Leaf("DIFFUSE_ENABLED", <<"0">>)>>),
      Elem("Config", <<Leaf("Name", <<"a">>), Leaf("cModelDiffTex", <<"t", ".", "p", "s", "d">>),
                       Leaf("DIFFUSE_ENABLED", <<"1">>),
                       Leaf("cGlossinessFactor", <<"0", ".", "5">>)>>),
      Elem("Config", <<Leaf("Name", <<"a">>), Leaf("NORMAL_ENABLED", NoneText)>>),
      Elem("Config", <<Leaf("Name", <<"b">>), Leaf("cDiffuseColor.r", <<"0", ".", "5">>)>>),
      Elem("Config", <<Leaf("cDiffuseColor.r", <<"a">>)>>),
      Elem("Config", <<Leaf("cModelDiffTex", <<"t", ".", "p", "s", "d">>)>>) }

MaterialInit ==
    /\ materials = <<>>
    /\ materialCache = <<>>
    /\ returned = <<>>
    /\ operation = 1
    /\ objects = {<<"o">>} /\ dpt = EmptyDPT /\ exc = "none" /\ source = NoNode
    /\ node = NoNode /\ pc = "new" /\ edits = 0 /\ last = NoCall /\ dpt2 = EmptyDPT
    /\ removed = NoRemoval
    /\ TransformIdle /\ MapperIdle /\ WriterIdle /\ SceneIdle /\ UiIdle

\* material_class.from_material_node(material_node).as_blender_material() of
\* xml_to_blender and apply_materials_to_object having ended as r; an
\* exception ends the import operation.
MaterialReturned(material_node, material, r) ==
    /\ materials' = r.materials
    /\ materialCache' = r.materialCache
    /\ returned' = Append(returned, [operation |-> operation, material |-> material,
                                     result |-> r.result, created |-> r.created,
                                     exc |-> r.exc])
    /\ exc' = r.exc
    /\ source' = material_node
    /\ UNCHANGED <<objects, dpt, node, pc, edits, last, dpt2, removed, operation>>
    /\ UNCHANGED <<trVars, mapVars, boolVars, sceneVars, uiVars>>
MaterialParsed(material_node, material) ==
    MaterialReturned(
        material_node, material,
        IF material.exc # "none"
        THEN [materials |-> materials, materialCache |-> materialCache, result |-> 0,
              created |-> FALSE, exc |-> material.exc]
        ELSE as_blender_material(material, [materials |-> materials,
                                            materialCache |-> materialCache]))
ApplyMaterial(material_node) ==
    /\ exc = "none"
    /\ Len(returned) < MaxCalls
    /\ MaterialParsed(material_node, from_material_node(material_node))

\* ImportAnnoCfg.execute starts: the next import operation.  Nothing empties
\* Material.materialCache.
StartImport ==
    /\ operation < MaxImports
    /\ operation' = operation + 1
    /\ exc' = "none"
    /\ UNCHANGED <<objects, dpt, source, node, pc, edits, last, dpt2, removed>>
    /\ UNCHANGED <<materials, materialCache, returned>>
    /\ UNCHANGED <<trVars, mapVars, boolVars, sceneVars, uiVars>>

MaterialNext ==
    \/ \E material_node \in MaterialNodes : ApplyMaterial(material_node)
    \/ StartImport

SpecMaterial == MaterialInit /\ [][MaterialNext]_vars

\* Two descriptors agree in name, texture paths, colours and custom properties.
SameContent(a, b) ==
    /\ a.name = b.name
    /\ a.textures = b.textures
    /\ a.colors = b.colors
    /\ a.custom_properties = b.custom_properties

\* C20: of two calls of as_blender_material in one import on descriptors with
\* equal name, texture paths, colours and custom properties, the second
\* creates no material and returns the material the first returned.
C20_MaterialReuse ==
    \A i, j \in 1..Len(returned) :
        /\ i < j
        /\ returned[i].operation = returned[j].operation
        /\ returned[i].material.exc = "none"
        /\ returned[j].material.exc = "none"
        /\ SameContent(returned[i].material, returned[j].material)
        => /\ returned[j].exc = "none"
           /\ returned[j].result # 0
           /\ returned[j].result = returned[i].result
           /\ ~returned[j].created

\* A second material element that differs from the first in a flag only got
\* the material created for the first.
C20_Witness ==
    /\ Len(returned) = 2
    /\ returned[1].operation = returned[2].operation
    /\ SameContent(returned[1].material, returned[2].material)
    /\ returned[1].material # returned[2].material
    /\ returned[1].created
    /\ ~returned[2].created
    /\ returned[2].result = 1
    /\ Len(materials) = 1

\* The calls of as_blender_material the current import operation has made.
CallsOfOperation(op) == {i \in 1..Len(returned) : returned[i].operation = op}

\* C21: the material cache is scoped to one import operation: it is empty
\* when an import operation starts, and a call that creates nothing returns a
\* material created by an earlier call of the same operation.
C21_CacheScoping ==
    /\ CallsOfOperation(operation) = {} => materialCache = <<>>
    /\ \A j \in 1..Len(returned) :
            returned[j].exc = "none" /\ ~returned[j].created
                => \E i \in 1..(j - 1) :
                        /\ returned[i].operation = returned[j].operation
                        /\ returned[i].created
                        /\ returned[i].result = returned[j].result

\* C26: as_blender_material returns a cached material only for a descriptor
\* whose whole content (name, texture paths, texture-enabled flags, colours,
\* custom properties and the remaining element) equals that of the descriptor
\* the material was created for.
C26_CollapseLosesNoData ==
    \A i, j \in 1..Len(returned) :
        /\ i < j
        /\ returned[i].exc = "none" /\ returned[i].created
        /\ returned[j].exc = "none" /\ ~returned[j].created
        /\ returned[j].result = returned[i].result
        => returned[j].material = returned[i].material

\* ------------------------------------------------------ animation tracks
\* The largest number of models of a file with a track.
MaxModels == 3

\* The models of a file with a track: the i-th is named by its position.
TrackModelName(i) == <<"m">> \o IntToText(i)
TrackModel(i) ==
    Elem("Config", <<Leaf("ConfigType", <<"M">>), Leaf("Name", TrackModelName(i))>>)
ModelObjectName(i) == <<"M", "_">> \o TrackModelName(i)

\* The track elements: each refers to a model by index and has a time.
TrackElementOf(id) ==
    Elem("TrackElement", <<Leaf("ModelID", IntToText(id)), Leaf("Time", <<"5">>)>>)
TrackIds ==
    {<<i>> : i \in 0..(MaxModels - 1)}
        \cup {<<i, j>> : i \in 0..(MaxModels - 1), j \in 0..(MaxModels - 1)}
TrackedElements ==
    {Elem("Config",
          <<Elem("Models", [i \in 1..n |-> TrackModel(i)]),
            Elem("Tracks",
                 <<Elem("Track", [i \in 1..Len(ids) |-> TrackElementOf(ids[i])])>>)>>) :
        n \in 1..MaxModels, ids \in TrackIds}

\* ImportAnnoCfg.import_cfg_file for a file with tracks
import_tracked_file(root, name, b) ==
    renamed(AnnoObject_xml_to_blender(TrackedMainFile, root, 0, b), name)
ImportTracked(E) ==
    /\ pc = "new"
    /\ CfgImported(E, import_tracked_file(E, ImportName,
                                          [objects |-> scene, defaults |-> defaults,
                                           exc |-> "none", obj |-> 0]))

\* The host deletes an object: it leaves bpy.data.objects, its children lose
\* their parent and every pointer property that held it is None.
RECURSIVE clear_pointers(_, _)
clear_pointers(d, name) ==
    [d EXCEPT
        !.object_pointer_properties =
            [i \in 1..Len(@) |->
                IF @[i].value = name THEN [@[i] EXCEPT !.value = NoneText] ELSE @[i]],
        !.dynamic_properties =
            [i \in 1..Len(@) |-> clear_pointers(@[i], name)]]
reparented(p, k) == IF p = k THEN 0 ELSE IF p > k THEN p - 1 ELSE p
remove_object(objs, k) ==
    [i \in 1..(Len(objs) - 1) |->
        [objs[IF i < k THEN i ELSE i + 1] EXCEPT
            !.parent = reparented(@, k),
            !.dynamic_properties = clear_pointers(@, objs[k].name)]]

\* The user deletes one model of the imported file.
DeleteObject(k) ==
    /\ pc = "imported"
    /\ exc = "none"
    /\ edits < MaxEdits
    /\ scene[k].anno_object_class = "Model"
    /\ scene' = remove_object(scene, k)
    /\ edits' = edits + 1
    /\ UNCHANGED <<objects, dpt, exc, source, node, pc, last, dpt2, removed, main_obj>>
    /\ UNCHANGED <<trVars, mapVars, boolVars, matVars, uiVars>>

\* ExportAnnoCfg.execute with the imported file object selected
ExportTracked ==
    /\ pc = "imported"
    /\ exc = "none"
    /\ node' = blender_to_xml(TrackedMainFile, main_obj, scene)
    /\ pc' = "exported"
    /\ UNCHANGED <<objects, dpt, exc, source, edits, last, dpt2, removed>>
    /\ UNCHANGED <<trVars, mapVars, boolVars, sceneVars, matVars, uiVars>>

TrackNext ==
    \/ pc = "new" /\ \E E \in TrackedElements : ImportTracked(E)
    \/ \E k \in 1..Len(scene) : DeleteObject(k)
    \/ ExportTracked

SpecTrack == SceneInit /\ [][TrackNext]_vars

\* ------------------------------------------------------ claims on SpecTrack
\* The track elements of the imported document, and the index each refers to.
SourceTrackElements == ElementsIn(source, "Tracks")[1].children
ReferencedIndex(t) == int_value(get_text(SourceTrackElements[t], "ModelID", <<>>))
\* The element refers to one of the imported models.
Resolvable(t) == ReferencedIndex(t) < Len(ElementsIn(source, "Models"))
\* The property tree the track object keeps for the element.
TrackObject == CHOOSE k \in 1..Len(scene) : scene[k].anno_object_class = "Track"
TrackElementTree(t) == scene[TrackObject].dynamic_properties.dynamic_properties[t]
\* The model imported at position i is still in the scene.
Alive(i) ==
    \E k \in 1..Len(scene) :
        scene[k].anno_object_class = "Model" /\ scene[k].name = ModelObjectName(i)
\* The number of models imported before position i that are still in the scene.
AliveBefore(i) == Cardinality({j \in 1..(i - 1) : Alive(j)})
\* The track elements of the exported document.
ExportedTrackElements == ElementsIn(node, "Tracks")[1].children

\* On parse the index is replaced by a reference to that model.
ReferenceStored(t) ==
    /\ \A i \in 1..Len(TrackElementTree(t).int_properties) :
            TrackElementTree(t).int_properties[i].tag # "ModelID"
    /\ TrackElementTree(t).object_pointer_properties =
            <<[tag |-> "BlenderModelID", value |-> ModelObjectName(ReferencedIndex(t) + 1)]>>
\* On serialise the reference is written as the position the model now has.
CurrentPositionWritten(t) ==
    /\ find(ExportedTrackElements[t], "BlenderModelID") = 0
    /\ find(ExportedTrackElements[t], "ModelID") # 0
    /\ get_text(ExportedTrackElements[t], "ModelID", <<>>) =
            IntToText(AliveBefore(ReferencedIndex(t) + 1))

WholeTreeExported ==
    /\ node # NoNode
    /\ Len(ElementsIn(node, "Models")) = Cardinality({i \in 1..MaxModels : Alive(i)})
    /\ \A i \in 1..MaxModels :
            Alive(i) => get_text(ElementsIn(node, "Models")[AliveBefore(i) + 1], "Name", <<>>)
                            = TrackModelName(i)
    /\ Len(ExportedTrackElements) = Len(SourceTrackElements)
    /\ \A t \in 1..Len(SourceTrackElements) :
            get_text(ExportedTrackElements[t], "Time", <<>>) = <<"5">>

MaxObjects == 3

\* The scenes: every object has a kind and a parent created before it.
WalkKinds == {"MainFile", "Model", "NoAnnoObject"}
WalkObject(i, kind, parent) ==
    [NewObject EXCEPT !.name = <<"o">> \o IntToText(i), !.anno_object_class = kind,
                      !.parent = parent]
WalkScenes ==
    UNION {{[i \in 1..n |-> WalkObject(i, kinds[i], parents[i])] :
                kinds \in [1..n -> WalkKinds],
                parents \in {f \in [1..n -> 0..(n - 1)] : \A i \in 1..n : f[i] < i}} :
           n \in 1..MaxObjects}

WalkInit ==
    /\ scene \in WalkScenes
    /\ main_obj = 0
    /\ main_file_obj = 0
    /\ unique_names = {} /\ unique_id_counter = 0
    /\ feedback_sequence_list = <<>> /\ feedback_sequence_list_index = 0
    /\ original_to_duplicate = <<>>
    /\ obj = NewObject
    /\ defaults = InitialDefaults
    /\ objects = {<<"o">>} /\ dpt = EmptyDPT /\ exc = "none" /\ source = NoNode
    /\ node = NoNode /\ pc = "new" /\ edits = 0 /\ last = NoCall /\ dpt2 = EmptyDPT
    /\ removed = NoRemoval
    /\ TransformIdle /\ WriterIdle /\ MaterialIdle

\* get_main_file_obj(obj) is called: main_file_obj = obj
get_main_file_obj(k) ==
    /\ pc = "new"
    /\ main_file_obj' = k
    /\ main_obj' = k
    /\ pc' = "walking"
    /\ UNCHANGED <<scene, unique_names, unique_id_counter,
                   feedback_sequence_list, feedback_sequence_list_index,
                   original_to_duplicate>>
    /\ UNCHANGED <<objects, dpt, exc, source, node, edits, last, dpt2, removed>>
    /\ UNCHANGED <<trVars, mapVars, boolVars, matVars>>

\* One pass of the while loop: the kind is not MainFile; the object becomes
\* its parent if it has one and stays what it is otherwise.
loop_pass ==
    /\ pc = "walking"
    /\ scene[main_file_obj].anno_object_class # "MainFile"
    /\ main_file_obj' = IF scene[main_file_obj].parent # 0
                        THEN scene[main_file_obj].parent
                        ELSE main_file_obj
    /\ UNCHANGED <<scene, main_obj, unique_names, unique_id_counter,
                   feedback_sequence_list, feedback_sequence_list_index,
                   original_to_duplicate>>
    /\ UNCHANGED <<objects, dpt, exc, source, node, pc, edits, last, dpt2, removed>>
    /\ UNCHANGED <<trVars, mapVars, boolVars, matVars>>

\* The loop is left with a MainFile object, which is returned.
return_main_file_obj ==
    /\ pc = "walking"
    /\ scene[main_file_obj].anno_object_class = "MainFile"
    /\ pc' = "returned"
    /\ UNCHANGED <<scene, main_obj, main_file_obj, unique_names, unique_id_counter,
                   feedback_sequence_list, feedback_sequence_list_index,
                   original_to_duplicate>>
    /\ UNCHANGED <<objects, dpt, exc, source, node, edits, last, dpt2, removed>>
    /\ UNCHANGED <<trVars, mapVars, boolVars, matVars>>

WalkNext ==
    \/ \E k \in 1..Len(scene) : get_main_file_obj(k)
    \/ loop_pass
    \/ return_main_file_obj

\* A call that has started goes on as long as it has a pass to make.
SpecWalk ==
    WalkInit /\ [][WalkNext]_vars /\ WF_vars(loop_pass) /\ WF_vars(return_main_file_obj)

\* The nearest MainFile among k and its ancestors, 0 if there is none.
RECURSIVE NearestMainFile(_)
NearestMainFile(k) ==
    IF k = 0 THEN 0
    ELSE IF scene[k].anno_object_class = "MainFile" THEN k
    ELSE NearestMainFile(scene[k].parent)

\* C22: get_main_file_obj(obj) returns for every object of the scene, and
\* what it returns is the nearest MainFile among obj and its ancestors.
C22_GetMainFileObjTerminates ==
    /\ [](pc = "returned" => main_file_obj = NearestMainFile(main_obj))
    /\ (pc = "walking") ~> (pc = "returned")

\* ------------------------------------------------------------ UniqueNamer
\* Most calls of get_unique_name on one UniqueNamer.
MaxNames == 3

\* The names, config types and name hints get_unique_name is called with.
\* A config type is one token.
InputNames ==
    {NoneText, <<>>, <<"a">>, <<" ", "a">>, <<"MODEL", "_", "a">>,
     <<"MODEL", "_", "0", "_", "a">>}
ConfigTypes == {"MODEL", "PROP"}
NameHints == {NoneText, <<"a">>}

\* re.match(config_type, input_name, re.I): the name starts with the config
\* type; the pool has no name in another case.
re_match(config_type, input_name) == input_name # <<>> /\ input_name[1] = config_type

\* config_type + "_" + str(self.unique_id_counter) + "_" + name
counted_name(config_type, counter, name) ==
    <<config_type, "_">> \o IntToText(counter) \o <<"_">> \o name

\* UniqueNamer.get_unique_name: [unique_name, unique_names, unique_id_counter]
named_as_given(self, input_name, config_type) ==
    [unique_name |-> IF re_match(config_type, input_name) THEN input_name
                     ELSE <<config_type, "_">> \o input_name,
     unique_names |-> self.unique_names \cup
                        {IF re_match(config_type, input_name) THEN input_name
                         ELSE <<config_type, "_">> \o input_name},
     unique_id_counter |-> self.unique_id_counter]
named_by_counter(self, config_type, name) ==
    [unique_name |-> counted_name(config_type, self.unique_id_counter, name),
     unique_names |-> self.unique_names
                        \cup {counted_name(config_type, self.unique_id_counter, name)},
     unique_id_counter |-> self.unique_id_counter + 1]
get_unique_name(self, input_name, config_type, namehint) ==
    IF input_name # NoneText /\ input_name # <<>>
    THEN IF strip(input_name) \notin self.unique_names
         THEN named_as_given(self, strip(input_name), config_type)
         ELSE named_by_counter(self, config_type, strip(input_name))
    ELSE named_by_counter(self, config_type,
                          IF namehint = NoneText
                          THEN <<"u", "n", "n", "a", "m", "e", "d">> ELSE namehint)

NamerInit ==
    /\ unique_names = {}
    /\ unique_id_counter = 0
    /\ returned = <<>>
    /\ materials = <<>> /\ materialCache = <<>> /\ operation = 1
    /\ main_file_obj = 0
    /\ feedback_sequence_list = <<>> /\ feedback_sequence_list_index = 0
    /\ original_to_duplicate = <<>>
    /\ objects = {<<"o">>} /\ dpt = EmptyDPT /\ exc = "none" /\ source = NoNode
    /\ node = NoNode /\ pc = "new" /\ edits = 0 /\ last = NoCall /\ dpt2 = EmptyDPT
    /\ removed = NoRemoval
    /\ TransformIdle /\ MapperIdle /\ WriterIdle /\ SceneIdle

\* unique_namer.get_unique_name(name_node.text, config_type, file_name) having
\* ended as r
Named(r) ==
    /\ unique_names' = r.unique_names
    /\ unique_id_counter' = r.unique_id_counter
    /\ returned' = Append(returned, r.unique_name)
    /\ UNCHANGED <<materials, materialCache, operation, main_file_obj,
                   feedback_sequence_list, feedback_sequence_list_index,
                   original_to_duplicate>>
    /\ UNCHANGED <<dptVars, trVars, mapVars, boolVars, sceneVars>>
GetUniqueName(input_name, config_type, namehint) ==
    /\ Len(returned) < MaxNames
    /\ Named(get_unique_name([unique_names |-> unique_names,
                              unique_id_counter |-> unique_id_counter],
                             input_name, config_type, namehint))

NamerNext ==
    \E input_name \in InputNames, config_type \in ConfigTypes, namehint \in NameHints :
        GetUniqueName(input_name, config_type, namehint)

SpecNamer == NamerInit /\ [][NamerNext]_vars

\* C23: the names one UniqueNamer returned are pairwise distinct, and each is
\* in unique_names.
C23_UniqueNamerUniqueness ==
    /\ \A i, j \in 1..Len(returned) : i # j => returned[i] # returned[j]
    /\ \A i \in 1..Len(returned) : returned[i] \in unique_names

\* ------------------------------------------------- MaterialLODInfos nodes
\* Most children of an element of an exported tree.
MaxLodChildren == 2

\* Element.__bool__: an element is true if it has children
element_bool(e) == Len(e.children) > 0

\* node.remove(child) for the child at position i
remove_child(element, i) ==
    [element EXCEPT !.children = SubSeq(@, 1, i - 1) \o SubSeq(@, i + 1, Len(@))]

\* ExportAnnoCfg.visit_and_delete_material_lod(node); find gives the first
\* element of that tag, and None is false
RECURSIVE visit_and_delete_material_lod(_)
visit_children(element) ==
    [element EXCEPT !.children =
        [i \in 1..Len(@) |-> visit_and_delete_material_lod(@[i])]]
visit_and_delete_material_lod(element) ==
    IF find(element, "MaterialLODInfos") # 0
          /\ element_bool(element.children[find(element, "MaterialLODInfos")])
    THEN visit_children(remove_child(element, find(element, "MaterialLODInfos")))
    ELSE visit_children(element)

\* The trees blender_to_xml gives the export: MaterialLODInfos elements with
\* and without children, once or twice in a node, at the root and below.
LodLeaves ==
    {Elem("MaterialLODInfos", <<Leaf("x", <<"1">>)>>), Leaf("MaterialLODInfos", NoneText),
     Leaf("B", <<"a">>)}
LodModels == {Elem("Config", cs) : cs \in ChildSeqs(LodLeaves, MaxLodChildren)}
LodRoots ==
    {Elem("Config", cs) : cs \in ChildSeqs(LodLeaves \cup LodModels, MaxLodChildren)}

LodInit ==
    /\ \E root \in LodRoots : source = root /\ node = root
    /\ pc = "exported"
    /\ objects = {<<"o">>} /\ dpt = EmptyDPT /\ exc = "none"
    /\ edits = 0 /\ last = NoCall /\ dpt2 = EmptyDPT /\ removed = NoRemoval
    /\ TransformIdle /\ MapperIdle /\ WriterIdle /\ SceneIdle /\ MaterialIdle /\ UiIdle

\* ExportAnnoCfg.export_cfg_file after blender_to_xml, with
\* delete_material_lod_info set
DeleteMaterialLod ==
    /\ pc = "exported"
    /\ node' = visit_and_delete_material_lod(node)
    /\ pc' = "written"
    /\ UNCHANGED <<objects, dpt, exc, source, edits, last, dpt2, removed>>
    /\ UNCHANGED <<trVars, mapVars, boolVars, sceneVars, matVars, uiVars>>

LodNext == DeleteMaterialLod

SpecLod == LodInit /\ [][LodNext]_vars

\* The tree without its elements of that tag, at any depth.
RECURSIVE WithoutTag(_, _)
RECURSIVE WithoutTagSeq(_, _)
WithoutTagSeq(cs, tag) ==
    IF cs = <<>> THEN <<>>
    ELSE (IF cs[1].tag = tag THEN <<>> ELSE <<WithoutTag(cs[1], tag)>>)
            \o WithoutTagSeq(Tail(cs), tag)
WithoutTag(e, tag) == [e EXCEPT !.children = WithoutTagSeq(@, tag)]

\* C24: with the option set, the exported tree has no MaterialLODInfos
\* element at any depth, with or without children, and every other element
\* is left in place.
C24_NoMaterialLodInfos ==
    pc = "written" => node = WithoutTag(source, "MaterialLODInfos")

\* ----------------------------------------------------- DuplicateAnnoObject
\* XMLPropertyGroup.reset(): the collections are cleared, deleted and hidden
\* are set to False; tag and config_type are not touched.
reset(self) ==
    [self EXCEPT !.feedback_sequence_properties = <<>>, !.boolean_properties = <<>>,
                 !.filename_properties = <<>>, !.string_properties = <<>>,
                 !.int_properties = <<>>, !.float_properties = <<>>,
                 !.color_properties = <<>>, !.object_pointer_properties = <<>>,
                 !.dynamic_properties = <<>>, !.deleted = FALSE, !.hidden = FALSE]

\* obj.children, in the order of bpy.data.objects
RECURSIVE obj_children(_, _, _)
obj_children(objs, k, i) ==
    IF i > Len(objs) THEN <<>>
    ELSE (IF objs[i].parent = k THEN <<i>> ELSE <<>>) \o obj_children(objs, k, i + 1)

\* DuplicateAnnoObject.duplicate_recursively(obj) on
\* d = [objects, original_to_duplicate, obj], obj the duplicate returned
RECURSIVE duplicate_recursively(_, _)
RECURSIVE duplicate_children(_, _, _)
\* dup = obj.copy(); self.original_to_duplicate[obj.name] = dup.name
object_copied(d, k) ==
    [objects |-> Append(d.objects,
                        [d.objects[k] EXCEPT !.name = unique_name(@, Names(d.objects))]),
     original_to_duplicate |->
        (d.objects[k].name :> unique_name(d.objects[k].name, Names(d.objects)))
            @@ d.original_to_duplicate,
     obj |-> Len(d.objects) + 1]
\* child_dup.parent = dup
child_parented(d, dup) == [d EXCEPT !.objects[d.obj].parent = dup]
duplicate_children(d, children, dup) ==
    IF children = <<>> THEN [d EXCEPT !.obj = dup]
    ELSE duplicate_children(child_parented(duplicate_recursively(d, children[1]), dup),
                            Tail(children), dup)
duplicate_recursively(d, k) ==
    duplicate_children(object_copied(d, k), obj_children(d.objects, k, 1),
                       Len(d.objects) + 1)

\* fix_track_object_references for one reference of one TrackElement, on
\* r = [element, exc]: the name is looked up in original_to_duplicate
fix_reference(r, tag, map) ==
    IF r.exc # "none" \/ find(r.element, tag) = 0 THEN r
    ELSE IF get_text(r.element, tag, <<>>) \notin DOMAIN map
    THEN [r EXCEPT !.exc = "KeyError"]
    ELSE [r EXCEPT !.element.children[find(r.element, tag)].text =
                        map[get_text(r.element, tag, <<>>)]]
fix_track_node(track_node, map) ==
    fix_reference(fix_reference([element |-> track_node, exc |-> "none"],
                                "BlenderModelID", map),
                  "BlenderParticleID", map)
\* The loop over node.findall("TrackElement"): [children, exc]
RECURSIVE fix_track_nodes(_, _)
fix_track_nodes_after(r, rest) ==
    IF r.exc # "none" THEN [children |-> <<r.element>>, exc |-> r.exc]
    ELSE [children |-> <<r.element>> \o rest.children, exc |-> rest.exc]
fix_track_nodes(children, map) ==
    IF children = <<>> THEN [children |-> <<>>, exc |-> "none"]
    ELSE IF children[1].tag # "TrackElement"
    THEN fix_track_nodes_after([element |-> children[1], exc |-> "none"],
                               fix_track_nodes(Tail(children), map))
    ELSE fix_track_nodes_after(fix_track_node(children[1], map),
                               IF fix_track_node(children[1], map).exc # "none"
                               THEN [children |-> <<>>, exc |-> "none"]
                               ELSE fix_track_nodes(Tail(children), map))

\* fix_track_object_references(track_obj) on f = [objects, exc]: reset and
\* from_node follow the loop
track_references_fixed(f, k, element, r) ==
    IF r.exc # "none" THEN [f EXCEPT !.exc = r.exc]
    ELSE properties_parsed(k, f,
            from_node(reset(f.objects[k].dynamic_properties),
                      [element EXCEPT !.children = r.children], Names(f.objects)))
track_references_of(f, k, element, map) ==
    track_references_fixed(f, k, element, fix_track_nodes(element.children, map))
fix_track_object_references(f, k, map) ==
    track_references_of(f, k, to_node(f.objects[k].dynamic_properties, Elem("Track", <<>>)),
                        map)

\* fix_object_references(obj); the objects have no modifiers
RECURSIVE fix_object_references(_, _, _)
RECURSIVE fix_references_of_children(_, _, _)
fix_references_of_children(f, children, map) ==
    IF children = <<>> \/ f.exc # "none" THEN f
    ELSE fix_references_of_children(fix_object_references(f, children[1], map),
                                    Tail(children), map)
fix_object_references(f, k, map) ==
    fix_references_of_children(
        IF f.objects[k].anno_object_class = "Track"
        THEN fix_track_object_references(f, k, map) ELSE f,
        obj_children(f.objects, k, 1), map)

\* DuplicateAnnoObject.execute with object k active, duplicate_recursively
\* having ended as d
Duplicated(d, f) ==
    /\ scene' = f.objects
    /\ exc' = f.exc
    /\ original_to_duplicate' = d.original_to_duplicate
    /\ pc' = "duplicated"
    /\ UNCHANGED <<main_obj, main_file_obj, unique_names, unique_id_counter,
                   feedback_sequence_list, feedback_sequence_list_index>>
    /\ UNCHANGED <<objects, dpt, source, node, edits, last, dpt2, removed>>
    /\ UNCHANGED <<trVars, mapVars, boolVars, matVars>>
DuplicateFixed(d) ==
    Duplicated(d, fix_object_references([objects |-> d.objects, exc |-> "none",
                                         defaults |-> defaults, obj |-> d.obj],
                                        d.obj, d.original_to_duplicate))
DuplicateAnnoObject(k) ==
    /\ pc = "imported"
    /\ exc = "none"
    /\ DuplicateFixed(duplicate_recursively([objects |-> scene,
                                             original_to_duplicate |-> <<>>, obj |-> 0], k))

DuplicateNext ==
    \/ pc = "new" /\ \E E \in TrackedElements : ImportTracked(E)
    \/ \E k \in 1..Len(scene) : DeleteObject(k)
    \/ \E k \in 1..Len(scene) : DuplicateAnnoObject(k)

SpecDuplicate == SceneInit /\ [][DuplicateNext]_vars

\* The object of that name.
ObjectNamed(name) == CHOOSE k \in 1..Len(scene) : scene[k].name = name
\* The references the track elements of a Track object hold, in order.
RECURSIVE ReferencesOf(_)
ReferencesOf(trees) ==
    IF trees = <<>> THEN <<>>
    ELSE [i \in 1..Len(trees[1].object_pointer_properties) |->
            trees[1].object_pointer_properties[i].value] \o ReferencesOf(Tail(trees))
TrackReferences(name) ==
    ReferencesOf(scene[ObjectNamed(name)].dynamic_properties.dynamic_properties)
\* What a reference of an original Track has to be in the duplicate.
DuplicateOf(value) ==
    IF value \in DOMAIN original_to_duplicate THEN original_to_duplicate[value] ELSE value
\* The duplicate of a Track refers to the duplicates.
ReferencesCleanedUp(name) ==
    /\ Len(TrackReferences(original_to_duplicate[name])) = Len(TrackReferences(name))
    /\ \A i \in 1..Len(TrackReferences(name)) :
            /\ TrackReferences(original_to_duplicate[name])[i]
                    = DuplicateOf(TrackReferences(name)[i])
            /\ TrackReferences(original_to_duplicate[name])[i]
                    \notin DOMAIN original_to_duplicate

\* C25: after DuplicateAnnoObject every reference of a duplicated Track is
\* the duplicate of the object the original Track refers to, none refers to
\* an object of the original hierarchy, and the operation completes also when
\* a reference is empty or points outside the duplicated hierarchy, which
\* leaves that reference as it is.
C25_DuplicateCleansUpReferences ==
    pc = "duplicated"
        => /\ exc = "none"
           /\ \A name \in DOMAIN original_to_duplicate :
                scene[ObjectNamed(name)].anno_object_class = "Track"
                    => ReferencesCleanedUp(name)

\* ------------------------------------------------- Transform construction
\* Most constructions of a Transform in one session.
MaxConstructions == 2

\* class Dummy(AnnoObject): the transform of a kind with an Euler rotation
Dummy ==
    [AnnoObject EXCEPT !.name = "Dummy", !.has_name = FALSE, !.has_transform = TRUE,
                       !.has_euler_rotation = TRUE,
                       !.transform_paths =
                           [c \in {"location.x", "location.y", "location.z",
                                   "rotation_euler.y", "scale.x", "scale.y", "scale.z"} |->
                               CASE c = "location.x" -> "Position/x"
                                 [] c = "location.y" -> "Position/y"
                                 [] c = "location.z" -> "Position/z"
                                 [] c = "rotation_euler.y" -> "RotationY"
                                 [] c = "scale.x" -> "Extents/x"
                                 [] c = "scale.y" -> "Extents/y"
                                 [] c = "scale.z" -> "Extents/z"]]

\* The elements a Transform is read from, and the kinds that read them.
ConstructPool ==
    { Leaf("Position.x", <<"2">>), Leaf("Rotation.x", <<"0", ".", "5">>),
      Leaf("Scale.y", <<"1", ".", "5">>), Leaf("RotationY", <<"3">>) }
ConstructElements == {Elem("Config", cs) : cs \in ChildSeqs(ConstructPool, 2)}
ConstructKinds == {"Prop", "Dummy"}
KindOf(name) == IF name = "Dummy" THEN Dummy ELSE Prop

ConstructInit ==
    /\ defaults = InitialDefaults
    /\ conversions = <<>>
    /\ converted = <<>>
    /\ transform = NoTransform /\ original = NoTransform
    /\ mirror_models = TRUE /\ module = "anno_objects"
    /\ obj = NewObject
    /\ objects = {<<"o">>} /\ dpt = EmptyDPT /\ exc = "none" /\ source = NoNode
    /\ node = NoNode /\ pc = "new" /\ edits = 0 /\ last = NoCall /\ dpt2 = EmptyDPT
    /\ removed = NoRemoval
    /\ WriterIdle /\ SceneIdle /\ MaterialIdle /\ UiIdle

\* A constructor returned instance and left the default lists as defs.
Constructed(call, instance, defs) ==
    /\ Len(converted) < MaxConstructions
    /\ conversions' = Append(conversions, call)
    /\ converted' = Append(converted, instance)
    /\ transform' = instance
    /\ defaults' = defs
    /\ UNCHANGED <<original, mirror_models, module, obj>>
    /\ UNCHANGED <<dptVars, boolVars, sceneVars, matVars, uiVars>>

\* Transform(), as in AnnoObject.__init__: the instance is bound to the
\* default lists
TransformDefault ==
    Constructed([call |-> "Transform", node |-> NoNode, kind |-> ""],
                Transform_init(defaults.loc, defaults.rot, defaults.sca, TRUE), defaults)

\* Transform.from_node(node, cls.transform_paths, cls.enforce_equal_scale,
\* cls.has_euler_rotation) having ended as r
FromNodeReturned(E, kind, r) ==
    Constructed([call |-> "from_node", node |-> E, kind |-> kind], r.transform, r.defaults)
TransformFromNode(E, kind) ==
    FromNodeReturned(E, kind,
        Transform_from_node(E, KindOf(kind).transform_paths,
                            KindOf(kind).enforce_equal_scale,
                            KindOf(kind).has_euler_rotation, defaults))

ConstructNext ==
    \/ TransformDefault
    \/ \E E \in ConstructElements, kind \in ConstructKinds : TransformFromNode(E, kind)

SpecConstruct == ConstructInit /\ [][ConstructNext]_vars

\* What a construction gives when nothing was constructed before it.
FirstConstruction(call) ==
    IF call.call = "Transform"
    THEN Transform_init(InitialDefaults.loc, InitialDefaults.rot, InitialDefaults.sca, TRUE)
    ELSE Transform_from_node(call.node, KindOf(call.kind).transform_paths,
                             KindOf(call.kind).enforce_equal_scale,
                             KindOf(call.kind).has_euler_rotation, InitialDefaults).transform
\* An instance as it reads now: location, rotation and scale are the lists
\* it was bound to.
AsItReadsNow(instance) ==
    [instance EXCEPT !.location = defaults.loc, !.rotation = defaults.rot,
                     !.scale = defaults.sca]

\* C27: a Transform constructed by Transform() or Transform.from_node is
\* what its arguments alone give, whatever was constructed before, and a
\* later construction changes the location, rotation and scale of no earlier
\* instance.
C27_ConstructionIndependentOfHistory ==
    /\ \A i \in 1..Len(converted) : converted[i] = FirstConstruction(conversions[i])
    /\ \A i \in 1..Len(converted) : AsItReadsNow(converted[i]) = converted[i]

\* -------------------------------------------------------------------- reset
\* The documents a property tree is loaded from, reset and loaded again.
ResetElements ==
    {Elem("Config", cs) :
        cs \in ChildSeqs({Leaf("ConfigType", <<"a">>), Leaf("A", <<"5">>),
                          Leaf("AdaptTerrainHeight", <<"1">>), Leaf("B", <<"a">>),
                          Elem("S", <<Leaf("A", <<"5">>)>>)}, MaxChildren)}

\* The user ticks "Hide" on the tree (XMLPropertyGroup.draw).
MarkHidden ==
    /\ pc = "parsed"
    /\ ~dpt.hidden
    /\ dpt' = [dpt EXCEPT !.hidden = TRUE]
    /\ UNCHANGED <<objects, exc, source, node, pc, edits, last, dpt2, removed>>
    /\ UNCHANGED <<trVars, mapVars, boolVars, sceneVars, matVars, uiVars>>

\* dynamic_properties.reset() followed by dynamic_properties.from_node(E),
\* having ended as r; dpt2 is the tree between the two calls
Reloaded(E, r) ==
    /\ dpt2' = reset(dpt)
    /\ dpt' = r.dpt
    /\ exc' = r.exc
    /\ source' = E
    /\ pc' = "reparsed"
    /\ UNCHANGED <<objects, node, edits, last, removed>>
    /\ UNCHANGED <<trVars, mapVars, boolVars, sceneVars, matVars, uiVars>>
ResetFromNode(E) ==
    /\ pc = "parsed"
    /\ exc = "none"
    /\ Reloaded(E, from_node(reset(dpt), E, objects))

ResetNext ==
    \/ pc = "new" /\ \E E \in ResetElements : FromNode(E)
    \/ MarkHidden
    \/ pc = "parsed" /\ \E E \in ResetElements : ResetFromNode(E)

SpecReset == DptInit /\ [][ResetNext]_vars

\* C28: reset() leaves a property tree as a new one is, apart from its tag,
\* so reset() followed by from_node(E) gives the tree from_node(E) gives on a
\* new one.
C28_ResetGivesFreshTree ==
    pc = "reparsed" =>
        /\ dpt2 = [EmptyDPT EXCEPT !.tag = dpt2.tag]
        /\ dpt = from_node(EmptyDPT, source, objects).dpt

\* ------------------------------------------------- feedback sequence list
\* Most operations on one feedback_sequence_list.
MaxListOps == 4

\* collection.remove(index) and collection.move(from, to) of the host: an
\* index outside the collection changes nothing.  Indices count from 0.
collection_remove(list, index) ==
    IF index \in 0..(Len(list) - 1)
    THEN SubSeq(list, 1, index) \o SubSeq(list, index + 2, Len(list))
    ELSE list
collection_move(list, from, to) ==
    IF from \in 0..(Len(list) - 1) /\ to \in 0..(Len(list) - 1) /\ from # to
    THEN [i \in 1..Len(list) |->
            IF i = to + 1 THEN list[from + 1]
            ELSE IF from < to /\ i > from /\ i <= to THEN list[i + 1]
            ELSE IF to < from /\ i > to + 1 /\ i <= from + 1 THEN list[i - 1]
            ELSE list[i]]
    ELSE list
min(a, b) == IF a < b THEN a ELSE b
max(a, b) == IF a > b THEN a ELSE b

\* collection[index], a negative index counting from the end
collection_item(list, index) ==
    IF index < 0 THEN list[Len(list) + index + 1] ELSE list[index + 1]

ListInit ==
    /\ feedback_sequence_list = <<>>
    /\ feedback_sequence_list_index = 0
    /\ main_file_obj = 0 /\ unique_names = {} /\ unique_id_counter = 0
    /\ original_to_duplicate = <<>>
    /\ objects = {<<"o">>} /\ dpt = EmptyDPT /\ exc = "none" /\ source = NoNode
    /\ node = NoNode /\ pc = "new" /\ edits = 0 /\ last = NoCall /\ dpt2 = EmptyDPT
    /\ removed = NoRemoval
    /\ TransformIdle /\ MapperIdle /\ WriterIdle /\ SceneIdle /\ MaterialIdle

\* What every list operator leaves alone; edits numbers the items added.
ListOperation ==
    /\ edits < MaxListOps
    /\ edits' = edits + 1
    /\ UNCHANGED <<main_file_obj, unique_names, unique_id_counter, original_to_duplicate>>
    /\ UNCHANGED <<objects, dpt, exc, source, node, pc, last, dpt2, removed>>
    /\ UNCHANGED <<trVars, mapVars, boolVars, sceneVars, matVars>>

\* LIST_OT_NewItem.execute
NewItem ==
    /\ ListOperation
    /\ feedback_sequence_list' =
            Append(feedback_sequence_list, [id |-> edits + 1, copy_of |-> 0])
    /\ UNCHANGED feedback_sequence_list_index

\* LIST_OT_DuplicateItem.execute: the item added last is a copy of the one
\* at the index, read after the add
DuplicateItem ==
    /\ ListOperation
    /\ feedback_sequence_list_index \in (0 - Len(feedback_sequence_list) - 1)
                                            ..Len(feedback_sequence_list)
    /\ feedback_sequence_list' =
            Append(feedback_sequence_list,
                   [id |-> edits + 1,
                    copy_of |-> collection_item(
                                    Append(feedback_sequence_list,
                                           [id |-> edits + 1, copy_of |-> 0]),
                                    feedback_sequence_list_index).id])
    /\ UNCHANGED feedback_sequence_list_index

\* LIST_OT_DeleteItem.execute; poll: the list is not empty
DeleteItem ==
    /\ feedback_sequence_list # <<>>
    /\ ListOperation
    /\ feedback_sequence_list' =
            collection_remove(feedback_sequence_list, feedback_sequence_list_index)
    /\ feedback_sequence_list_index' =
            min(max(0, feedback_sequence_list_index - 1),
                Len(feedback_sequence_list') - 1)

\* LIST_OT_MoveItem.execute and move_index; poll: the list is not empty
direction_step(direction) == IF direction = "UP" THEN 0 - 1 ELSE 1
MoveItem(direction) ==
    /\ feedback_sequence_list # <<>>
    /\ ListOperation
    /\ feedback_sequence_list' =
            collection_move(feedback_sequence_list,
                            feedback_sequence_list_index + direction_step(direction),
                            feedback_sequence_list_index)
    /\ feedback_sequence_list_index' =
            max(0, min(feedback_sequence_list_index + direction_step(direction),
                       Len(feedback_sequence_list) - 1))

\* The user picks a row of the list (template_list).
SelectItem(i) ==
    /\ ListOperation
    /\ i # feedback_sequence_list_index
    /\ feedback_sequence_list_index' = i
    /\ UNCHANGED feedback_sequence_list

ListNext ==
    \/ NewItem
    \/ DuplicateItem
    \/ DeleteItem
    \/ \E direction \in {"UP", "DOWN"} : MoveItem(direction)
    \/ \E i \in 0..(Len(feedback_sequence_list) - 1) : SelectItem(i)

SpecList == ListInit /\ [][ListNext]_vars

\* The index is on an item of the list.
IndexOnItem ==
    feedback_sequence_list_index \in 0..(Len(feedback_sequence_list) - 1)
\* A Move leaves the index on the item it was on.
MoveKeepsItem ==
    (\E direction \in {"UP", "DOWN"} : MoveItem(direction)) /\ IndexOnItem
        => /\ IndexOnItem'
           /\ feedback_sequence_list'[feedback_sequence_list_index' + 1]
                = feedback_sequence_list[feedback_sequence_list_index + 1]

\* C30: after any New, Delete, Duplicate and Move operations the index is
\* on an item whenever the list is not empty, and a Move keeps the index on
\* the item that was moved.
C30_SelectionStaysValid ==
    /\ [](feedback_sequence_list # <<>> => IndexOnItem)
    /\ [][MoveKeepsItem]_vars

==============================================================================
